---- MODULE Spec2Model ----
(***************************************************************************)
(* CON5013 log aggregation subsystem (con5013/core/log_monitor.py) and      *)
(* terminal engine (con5013/core/terminal_engine.py).                      *)
(* Strings are sequences of one-character strings, so that startswith,     *)
(* split, upper, strip and substring search are computed, not assumed.     *)
(***************************************************************************)
EXTENDS Integers, Sequences, FiniteSets, TLC

(* ------------------------------ bounds -------------------------------- *)
\* CON5013_MAX_LOG_ENTRIES of the configuration the sequential runs use
MaxEntries == 2
\* producer events in one behaviour (logger emits, manual entries, file writes)
MaxEvents == 3
\* largest value the wall clock takes
MaxTime == 2
\* emits made by each producer thread (E)
EmitsPerThread == 2
\* CON5013_TERMINAL_HISTORY_SIZE of the configuration (capacity M)
MaxHistory == 2

(* ------------------------------ strings ------------------------------- *)
S_empty == <<>>
S_app == <<"a","p","p">>
S_flask == <<"f","l","a","s","k">>
S_flask_app == <<"f","l","a","s","k",".","a","p","p">>
S_werkzeug == <<"w","e","r","k","z","e","u","g">>
S_crawl4ai == <<"c","r","a","w","l","4","a","i">>
S_con5013 == <<"c","o","n","5","0","1","3">>
S_CON5013 == <<"C","O","N","5","0","1","3">>
S_shop == <<"s","h","o","p">>
S_foo == <<"f","o","o">>
S_foo_dot == <<"f","o","o",".">>
S_foo_baz == <<"f","o","o",".","b","a","z">>
S_bar == <<"b","a","r">>
S_jobs == <<"j","o","b","s">>
S_shop_db == <<"s","h","o","p",".","d","b">>
S_shop_db_pool == <<"s","h","o","p",".","d","b",".","p","o","o","l">>
S_zed_sub == <<"z","e","d",".","s","u","b">>
S_dot_hid == <<".","h">>
S_x == <<"x">>
S_DEBUG == <<"D","E","B","U","G">>
S_INFO == <<"I","N","F","O">>
S_WARNING == <<"W","A","R","N","I","N","G">>
S_ERROR == <<"E","R","R","O","R">>
S_CRITICAL == <<"C","R","I","T","I","C","A","L">>
S_error == <<"e","r","r","o","r">>
S_Info == <<"I","n","f","o">>
S_trace == <<"t","r","a","c","e">>

\* Optional values: None is the empty tuple, Some(x) the one-element tuple
None == <<>>
Some(x) == <<x>>

LowerChars == <<"a","b","c","d","e","f","g","h","i","j","k","l","m",
                "n","o","p","q","r","s","t","u","v","w","x","y","z">>
UpperChars == <<"A","B","C","D","E","F","G","H","I","J","K","L","M",
                "N","O","P","Q","R","S","T","U","V","W","X","Y","Z">>
Whitespace == {" ", "\n", "\t", "\r"}

Min(a, b) == IF a <= b THEN a ELSE b
Max(a, b) == IF a >= b THEN a ELSE b

\* str.upper() on one character
upper_char(c) ==
  IF \E i \in 1..26 : LowerChars[i] = c
  THEN UpperChars[CHOOSE i \in 1..26 : LowerChars[i] = c]
  ELSE c

\* str.upper()
upper(s) == [i \in 1..Len(s) |-> upper_char(s[i])]

lower_char(c) ==
  IF \E i \in 1..26 : UpperChars[i] = c
  THEN LowerChars[CHOOSE i \in 1..26 : UpperChars[i] = c]
  ELSE c

\* str.lower()
lower(s) == [i \in 1..Len(s) |-> lower_char(s[i])]

\* str.startswith(prefix)
startswith(s, prefix) ==
  /\ Len(prefix) <= Len(s)
  /\ SubSeq(s, 1, Len(prefix)) = prefix

\* `sub in s` for strings
contains(s, sub) ==
  \E i \in 0..(Len(s) - Len(sub)) : SubSeq(s, i + 1, i + Len(sub)) = sub

\* the name taken whole, without the split
split_dot_none(s) == s

\* s.split('.')[0]
split_dot_first(s) ==
  IF \E i \in 1..Len(s) : s[i] = "."
  THEN SubSeq(s, 1, (CHOOSE i \in 1..Len(s) :
                       /\ s[i] = "."
                       /\ \A j \in 1..(i - 1) : s[j] # ".") - 1)
  ELSE s

\* a strip that removes nothing
strip_none(s) == s

\* str.strip()
strip(s) ==
  IF \A i \in 1..Len(s) : s[i] \in Whitespace
  THEN <<>>
  ELSE LET first == CHOOSE i \in 1..Len(s) :
                      /\ s[i] \notin Whitespace
                      /\ \A j \in 1..(i - 1) : s[j] \in Whitespace
           last == CHOOSE i \in 1..Len(s) :
                      /\ s[i] \notin Whitespace
                      /\ \A j \in (i + 1)..Len(s) : s[j] \in Whitespace
       IN SubSeq(s, first, last)

(* ------------------------------- state -------------------------------- *)
VARIABLES
  logger_aliases,  \* ordered dict prefix -> alias: sequence of [prefix, alias]
  log_buffers,     \* dict logical name -> deque object (an index of deques)
  deques,          \* the deque objects: deques[i] is the content of deque i
  log_sources,     \* dict logical name -> [path, last_position, last_modified]
  files,           \* the file system: path -> [content, mtime]
  clock,           \* the last value time.time() / the file system clock gave
  next_id,         \* number of log entries created so far (object identity)
  appended,        \* history: appended[i] = entries appended to deque i since
                   \* it was created or last cleared
  events,          \* number of producer events so far
  ret,             \* the operation that ran last and what it returned
  max_entries,     \* configuration CON5013_MAX_LOG_ENTRIES (capacity N)
  capture_root,    \* configuration CON5013_CAPTURE_ROOT_LOGGER
  attached_targets,\* keys of the loggers the handler was added to
  pc,              \* producer threads: position inside add_log_entry
  local,           \* producer threads: the deque reference each holds
  emitted,         \* producer threads: emits that have returned
  commands,        \* TerminalEngine.commands: name -> the handler registered
  history,         \* TerminalEngine.history: deque of [command, timestamp,
                   \* context]
  py_context,      \* TerminalEngine._py_context: variable name -> value
  calls,           \* the handler calls the last execute made: [handler, args,
                   \* seen], seen being self.history as the handler found it
  reply,           \* the last execute: its arguments and what it returned
  allow_py,        \* configuration entry CON5013_TERMINAL_ALLOW_PY, None: absent
  submitted,       \* history: the records execute appended to self.history
  registered,      \* history: name -> the registration last made under it
                   \* (configuration table or add_command)
  sessions,        \* operator sessions (threads) inside execute: position,
                   \* arguments, the context the namespace was seeded from,
                   \* and the names their evaluations stored
  reader,          \* a thread inside get_logs: position, the deque object
                   \* it found and what that deque held then
  console,         \* Con5013: its feature toggles and, for each component
                   \* attribute, whether it holds an object (FALSE: None)
  access           \* the blueprint's gate: the authentication settings of the
                   \* configuration, the last request, the response
                   \* before_request gave it (None: none) and whether the
                   \* route handler ran

vars == <<logger_aliases, log_buffers, deques, log_sources, files, clock,
          next_id, appended, events, ret, max_entries, capture_root,
          attached_targets,
          pc, local, emitted,
          commands, history, py_context, calls, reply, allow_py, submitted,
          registered, sessions, reader, console, access>>

Threads == {1, 2}

(* --------------------------- alias resolver --------------------------- *)
\* self.logger_aliases as built by LogMonitor.__init__; the host application's
\* logger is named "shop"
default_aliases ==
  << [prefix |-> S_flask_app, alias |-> S_flask],
     [prefix |-> S_flask,     alias |-> S_flask],
     [prefix |-> S_werkzeug,  alias |-> S_werkzeug],
     [prefix |-> S_crawl4ai,  alias |-> S_crawl4ai],
     [prefix |-> S_con5013,   alias |-> S_CON5013],
     [prefix |-> S_shop,      alias |-> S_flask] >>

\* a rule table that appends a rule on every call
dict_set_append(d, k, v) == Append(d, [prefix |-> k, alias |-> v])

\* d[k] = v on an insertion-ordered dict: an existing key keeps its place
dict_set(d, k, v) ==
  IF \E i \in 1..Len(d) : d[i].prefix = k
  THEN [i \in 1..Len(d) |->
          IF d[i].prefix = k THEN [prefix |-> k, alias |-> v] ELSE d[i]]
  ELSE Append(d, [prefix |-> k, alias |-> v])

\* indexes of the rules whose prefix logger_name starts with
matching(aliases, logger_name) ==
  {i \in 1..Len(aliases) : startswith(logger_name, aliases[i].prefix)}

\* a resolver that never consults the alias table
derive_source_ignoring_aliases(aliases, logger_name) ==
  IF logger_name # <<>> THEN split_dot_first(logger_name) ELSE S_app

\* LogMonitor._derive_source_from_logger: the first rule, in dict order,
\* whose prefix matches; otherwise the top-level segment, or 'app'
derive_source_from_logger(aliases, logger_name) ==
  IF matching(aliases, logger_name) # {}
  THEN aliases[CHOOSE i \in matching(aliases, logger_name) :
                 \A j \in matching(aliases, logger_name) : i <= j].alias
  ELSE IF logger_name # <<>> THEN split_dot_first(logger_name) ELSE S_app

(* --------------------- bounded buffers and the sink ------------------- *)
\* an append on a deque created without maxlen
deque_append_unbounded(dq, x) == Append(dq, x)

\* collections.deque(maxlen=max_entries).append(x): the oldest entries are
\* discarded once the length exceeds maxlen
deque_append(dq, x) ==
  LET s == Append(dq, x)
  IN SubSeq(s, Len(s) - Min(Len(s), max_entries) + 1, Len(s))

\* the part of the state the sink writes, as one value
Mem == [bufs |-> log_buffers, dq |-> deques, app |-> appended,
        n |-> next_id, now |-> clock]

SetMem(m) ==
  /\ log_buffers' = m.bufs
  /\ deques' = m.dq
  /\ appended' = m.app
  /\ next_id' = m.n
  /\ clock' = m.now

\* self.log_buffers[source] = deque(maxlen=self.max_entries) when absent
ensure_buffer(m, source) ==
  IF source \in DOMAIN m.bufs
  THEN m
  ELSE [m EXCEPT !.bufs = (source :> (Len(m.dq) + 1)) @@ m.bufs,
                 !.dq = Append(m.dq, <<>>),
                 !.app = Append(m.app, <<>>)]

\* self.log_buffers[source].append(log_entry)
buffer_append(m, source, e) ==
  LET d == m.bufs[source]
  IN [m EXCEPT !.dq[d] = deque_append(@, e),
               !.app[d] = Append(@, e),
               !.n = e.id]

\* the level add_log_entry stores
stored_level(level) == upper(level)

\* LogMonitor.add_log_entry(source, level, message), time.time() giving t
add_log_entry(m, source, level, message, t) ==
  LET e == [id |-> m.n + 1, timestamp |-> t, source |-> source,
            level |-> stored_level(level), message |-> message]
  IN buffer_append(ensure_buffer([m EXCEPT !.now = t], source), source, e)

\* LogMonitor._extract_log_level
extract_log_level(line) ==
  LET line_upper == upper(line)
  IN IF contains(line_upper, S_CRITICAL) THEN S_CRITICAL
     ELSE IF contains(line_upper, S_ERROR) THEN S_ERROR
     ELSE IF contains(line_upper, S_WARNING) THEN S_WARNING
     ELSE IF contains(line_upper, S_INFO) THEN S_INFO
     ELSE IF contains(line_upper, S_DEBUG) THEN S_DEBUG
     ELSE S_INFO

\* LogMonitor._process_log_line(source, line), time.time() giving t
process_log_line(m, source, line, t) ==
  IF line = <<>>
  THEN m
  ELSE buffer_append([m EXCEPT !.now = t], source,
                     [id |-> m.n + 1, timestamp |-> t, source |-> source,
                      level |-> extract_log_level(line), message |-> line])

(* ------------------------------ the handler --------------------------- *)
\* A logging record: name is None when it is not a string (startswith then
\* raises); fmt_ok is FALSE when Handler.format raises (bad format arguments)
Record(name, levelname, msg, fmt_ok) ==
  [name |-> name, levelname |-> levelname, msg |-> msg, fmt_ok |-> fmt_ok]

\* logging.Handler.handleError: reports on stderr and returns
handleError(m) == [m |-> m, outcome |-> "handled"]

\* emit without its try/except: a failure reaches the caller
emit_unguarded(m, aliases, record, t) ==
  IF ~record.fmt_ok \/ record.name = None
  THEN [m |-> m, outcome |-> "raised"]
  ELSE [m |-> add_log_entry(m,
                 derive_source_from_logger(aliases, record.name[1]),
                 record.levelname, record.msg, t),
        outcome |-> "ok"]

\* Con5013LogHandler.emit(record), time.time() giving t
emit(m, aliases, record, t) ==
  IF ~record.fmt_ok
  THEN handleError(m)
  ELSE IF record.name = None
  THEN handleError(m)
  ELSE [m |-> add_log_entry(m,
                 derive_source_from_logger(aliases, record.name[1]),
                 record.levelname, record.msg, t),
        outcome |-> "ok"]

(* --------------------------- file tail reader ------------------------- *)
RECURSIVE readlines(_)
\* f.readlines(): the text cut after each newline
readlines(text) ==
  IF text = <<>>
  THEN <<>>
  ELSE IF \E i \in 1..Len(text) : text[i] = "\n"
  THEN LET i == CHOOSE k \in 1..Len(text) :
                  /\ text[k] = "\n"
                  /\ \A j \in 1..(k - 1) : text[j] # "\n"
       IN <<SubSeq(text, 1, i)>> \o readlines(SubSeq(text, i + 1, Len(text)))
  ELSE <<text>>

\* the message of the error _read_file_content logs when open or read fails
S_read_error == <<"E","r","r","o","r"," ","r","e","a","d","i","n","g">>

\* the refresh gets past the modification-time test and open() then raises
\* (permission denied, read error)
read_fails(fs, srcs, source_name) ==
  /\ source_name \in DOMAIN srcs
  /\ srcs[source_name].path \in DOMAIN fs
  /\ fs[srcs[source_name].path].mtime > srcs[source_name].last_modified
  /\ ~fs[srcs[source_name].path].readable

\* what f.seek(last_position); f.readlines() gives for a source in the file
\* system fs
lines_from(fs, srcs, source_name) ==
  IF source_name \notin DOMAIN srcs
  THEN <<>>
  ELSE LET source == srcs[source_name]
       IN IF source.path \notin DOMAIN fs
          THEN <<>>
          ELSE IF fs[source.path].mtime <= source.last_modified
          THEN <<>>
          ELSE IF ~fs[source.path].readable
          THEN <<>>
          ELSE readlines(SubSeq(fs[source.path].content,
                                source.last_position + 1,
                                Len(fs[source.path].content)))

new_lines(srcs, source_name) == lines_from(files, srcs, source_name)

RECURSIVE process_lines(_, _, _, _, _)
\* for line in new_lines: self._process_log_line(source_name, line.strip())
process_lines(m, source_name, lines, ts, k) ==
  IF k > Len(lines)
  THEN m
  ELSE process_lines(process_log_line(m, source_name, strip(lines[k]), ts[k]),
                     source_name, lines, ts, k + 1)

\* self.app.logger.error(...): the record reaches Con5013LogHandler through
\* the application's logger
log_read_error(m, aliases) ==
  emit(m, aliases, Record(Some(S_shop), S_ERROR, S_read_error, TRUE), m.now).m

\* what a refresh leaves: the buffers, the file sources, and whether it
\* returned ("ok") or let an exception out ("raised")
Refreshed(m, srcs, outcome) == [m |-> m, srcs |-> srcs, outcome |-> outcome]

\* the part of _read_file_content inside `with open(...)`: seek, readlines,
\* tell, and the loop over the new lines
read_new_lines(m, fs, srcs, source_name, ts) ==
  LET source == srcs[source_name]
  IN Refreshed(process_lines(m, source_name,
                             lines_from(fs, srcs, source_name), ts, 1),
               [srcs EXCEPT ![source_name] =
                  [path |-> source.path,
                   last_position |-> Max(source.last_position,
                                         Len(fs[source.path].content)),
                   last_modified |-> fs[source.path].mtime]],
               "ok")

\* a refresh that reads the file whatever its modification time is
read_file_ignoring_mtime(m, fs, srcs, aliases, source_name, ts) ==
  IF source_name \notin DOMAIN srcs
  THEN Refreshed(m, srcs, "ok")
  ELSE IF srcs[source_name].path \notin DOMAIN fs
  THEN Refreshed(m, srcs, "ok")
  ELSE IF ~fs[srcs[source_name].path].readable
  THEN Refreshed(log_read_error(m, aliases), srcs, "ok")
  ELSE LET r == read_new_lines(m, fs,
                  [srcs EXCEPT ![source_name].last_modified = 0],
                  source_name,
                  [k \in 1..Len(lines_from(fs,
                                  [srcs EXCEPT ![source_name].last_modified = 0],
                                  source_name)) |-> m.now])
       IN r

\* a refresh without its try/except: a failure to open or read the file
\* reaches the caller
read_file_unguarded(m, fs, srcs, aliases, source_name, ts) ==
  IF source_name \notin DOMAIN srcs
  THEN Refreshed(m, srcs, "ok")
  ELSE IF srcs[source_name].path \notin DOMAIN fs
  THEN Refreshed(m, srcs, "ok")
  ELSE IF fs[srcs[source_name].path].mtime <= srcs[source_name].last_modified
  THEN Refreshed(m, srcs, "ok")
  ELSE IF ~fs[srcs[source_name].path].readable
  THEN Refreshed(m, srcs, "raised")
  ELSE read_new_lines(m, fs, srcs, source_name, ts)

\* LogMonitor._read_file_content(source_name) in the file system fs; ts[k] is
\* what time.time() gives while line k is processed. f.tell() after a seek
\* beyond the end of the file is the position sought.
read_file_content(m, fs, srcs, aliases, source_name, ts) ==
  IF source_name \notin DOMAIN srcs
  THEN Refreshed(m, srcs, "ok")
  ELSE IF srcs[source_name].path \notin DOMAIN fs
  THEN Refreshed(m, srcs, "ok")
  ELSE IF fs[srcs[source_name].path].mtime <= srcs[source_name].last_modified
  THEN Refreshed(m, srcs, "ok")
  ELSE IF ~fs[srcs[source_name].path].readable
  THEN Refreshed(log_read_error(m, aliases), srcs, "ok")
  ELSE read_new_lines(m, fs, srcs, source_name, ts)

\* LogMonitor.add_source(name, path): the FileSource is (re)initialised, the
\* buffer is created when absent, and the file is read when it exists
add_source(m, fs, srcs, aliases, name, path, ts) ==
  LET fresh == (name :> [path |-> path, last_position |-> 0,
                         last_modified |-> 0]) @@ srcs
      m1 == ensure_buffer(m, name)
  IN IF path \in DOMAIN fs
     THEN read_file_content(m1, fs, fresh, aliases, name, ts)
     ELSE Refreshed(m1, fresh, "ok")

\* a clear that also forgets how far the file was read
clear_logs_and_offset(m, srcs, source) ==
  [m |-> IF source \in DOMAIN m.bufs
         THEN [m EXCEPT !.dq[m.bufs[source]] = <<>>,
                        !.app[m.bufs[source]] = <<>>]
         ELSE m,
   srcs |-> IF source \in DOMAIN srcs
            THEN [srcs EXCEPT ![source].last_position = 0,
                              ![source].last_modified = 0]
            ELSE srcs]

\* LogMonitor.clear_logs(source)
clear_logs(m, srcs, source) ==
  [m |-> IF source \in DOMAIN m.bufs
         THEN [m EXCEPT !.dq[m.bufs[source]] = <<>>,
                        !.app[m.bufs[source]] = <<>>]
         ELSE m,
   srcs |-> srcs]

\* the values successive time.time() calls can give from now on
TimeSeqs(n) ==
  {ts \in [1..n -> clock..MaxTime] : \A i \in 1..(n - 1) : ts[i] <= ts[i + 1]}

(* -------------------------------- query ------------------------------- *)
\* place e in a list sorted by descending timestamp, after the entries whose
\* timestamp is at least e's
insert_desc(sorted, e) ==
  LET k == Cardinality({i \in 1..Len(sorted) :
                          sorted[i].timestamp >= e.timestamp})
  IN SubSeq(sorted, 1, k) \o <<e>> \o SubSeq(sorted, k + 1, Len(sorted))

RECURSIVE sort_newest_first(_)
\* logs.sort(key=timestamp, reverse=True): a stable sort, so entries with
\* equal timestamps keep the order they had in the list
sort_newest_first(logs) ==
  IF logs = <<>>
  THEN <<>>
  ELSE insert_desc(sort_newest_first(SubSeq(logs, 1, Len(logs) - 1)),
                   logs[Len(logs)])

\* logs[:limit]
slice_to(logs, limit) ==
  IF limit >= 0
  THEN SubSeq(logs, 1, Min(limit, Len(logs)))
  ELSE SubSeq(logs, 1, Max(Len(logs) + limit, 0))

\* `if level:` is false for None and for the empty string
level_given(level) == level # None /\ level[1] # <<>>

\* [log for log in logs if log.get('level') == level.upper()]
filter_level(logs, level) ==
  IF level_given(level)
  THEN SelectSeq(logs, LAMBDA log : log.level = upper(level[1]))
  ELSE logs

\* a query that truncates before it filters
get_logs_truncate_first(buffer, limit, level) ==
  filter_level(slice_to(sort_newest_first(buffer), limit), level)

\* what LogMonitor.get_logs returns from the buffer content
get_logs(buffer, limit, level) ==
  slice_to(sort_newest_first(filter_level(buffer, level)), limit)

\* a lookup that falls back on the buffer of 'app' for an unknown name
buffer_or_app(m, source) ==
  IF source \in DOMAIN m.bufs THEN m.dq[m.bufs[source]]
  ELSE m.dq[m.bufs[S_app]]

\* self.log_buffers.get(source, deque())
buffer_of(m, source) ==
  IF source \in DOMAIN m.bufs THEN m.dq[m.bufs[source]] ELSE <<>>

Buffer(source) == buffer_of(Mem, source)

(* ------------------------------- actions ------------------------------ *)
Ret(op, outcome, source, limit, level, logs) ==
  [op |-> op, outcome |-> outcome, source |-> source, limit |-> limit,
   level |-> level, logs |-> logs]

sinkvars == <<log_buffers, deques, appended, next_id, clock>>
confvars == <<max_entries, capture_root, console, access>>
threadvars == <<pc, local, emitted, sessions, reader>>
termvars == <<commands, history, py_context, calls, reply, allow_py,
              submitted, registered>>
logvars == <<logger_aliases, log_buffers, deques, log_sources, files,
             next_id, appended, ret, attached_targets>>

\* a caller runs add_log_entry(source, level, message); time.time() gives t
AddLogEntry(source, level, message, t) ==
  /\ events < MaxEvents
  /\ t >= clock
  /\ events' = events + 1
  /\ SetMem(add_log_entry(Mem, source, level, message, t))
  /\ ret' = Ret("add_log_entry", "ok", source, 0, None, <<>>)
  /\ UNCHANGED <<logger_aliases, log_sources, files, attached_targets,
                 confvars, threadvars, termvars>>

\* the logging module hands a record to Con5013LogHandler.emit; time.time()
\* gives t
Emit(record, t) ==
  /\ events < MaxEvents
  /\ t >= clock
  /\ events' = events + 1
  /\ LET r == emit(Mem, logger_aliases, record, t)
     IN /\ SetMem(r.m)
        /\ ret' = Ret("emit", r.outcome, <<>>, 0, None, <<>>)
  /\ UNCHANGED <<logger_aliases, log_sources, files, attached_targets,
                 confvars, threadvars, termvars>>

\* LogMonitor.set_logger_alias(prefix, alias)
SetLoggerAlias(prefix, alias) ==
  /\ logger_aliases' = dict_set(logger_aliases, prefix, alias)
  /\ ret' = Ret("set_logger_alias", "ok", <<>>, 0, None, <<>>)
  /\ UNCHANGED <<sinkvars, log_sources, files, events, attached_targets,
                 confvars, threadvars, termvars>>

\* getattr(lg, 'propagate', True) of a logger the host left as created
propagate(logger_name) == TRUE

\* LogMonitor.attach_logger(logger_name, alias)
AttachLogger(logger_name, alias) ==
  /\ logger_aliases' = IF alias # None /\ alias[1] # <<>>
                       THEN dict_set(logger_aliases, logger_name, alias[1])
                       ELSE logger_aliases
  /\ attached_targets' = IF capture_root /\ propagate(logger_name)
                         THEN attached_targets
                         ELSE attached_targets \cup {<<"logger", logger_name>>}
  /\ ret' = Ret("attach_logger", "ok", <<>>, 0, None, <<>>)
  /\ UNCHANGED <<sinkvars, log_sources, files, events, confvars, threadvars, termvars>>

\* the loggers a record logged on name passes on its way to the root
\* logger, root left out: the logger and those named by its dotted prefixes
\* (the host left every logger's propagate as created)
ancestors(name) ==
  {SubSeq(name, 1, i) : i \in {j \in 1..Len(name) :
                                 j = Len(name) \/ name[j + 1] = "."}}

\* the loggers among names whose handlers hold self._handler: the named
\* loggers attached, and the application's logger ("shop") for key 'app'
holders(targets, names) ==
  {n \in names : \/ <<"logger", n>> \in targets
                 \/ <<"app">> \in targets /\ n = S_shop}

RECURSIVE emit_times(_, _, _, _, _)
\* Con5013LogHandler.emit(record) called k times in a row
emit_times(m, aliases, record, t, k) ==
  IF k = 0
  THEN [m |-> m, outcome |-> "ok"]
  ELSE emit_times(emit(m, aliases, record, t).m, aliases, record, t, k - 1)

\* logging.Logger.callHandlers(record): every handler of the logger and of
\* its ancestors is given the record, self._handler once for each logger
\* that holds it
callHandlers(m, aliases, targets, record, t) ==
  emit_times(m, aliases, record, t,
             Cardinality(holders(targets, ancestors(record.name[1])))
             + IF <<"root">> \in targets THEN 1 ELSE 0)

\* the host logs a record on the logger record.name; time.time() gives t
Log(record, t) ==
  /\ events < MaxEvents
  /\ t >= clock
  /\ events' = events + 1
  /\ LET r == callHandlers(Mem, logger_aliases, attached_targets, record, t)
     IN /\ SetMem(r.m)
        /\ ret' = Ret("log", r.outcome, record.name[1], 0, None, <<>>)
  /\ UNCHANGED <<logger_aliases, log_sources, files, attached_targets,
                 confvars, threadvars, termvars>>

\* LogMonitor.get_logs(source, limit, level). A refresh that fails logs one
\* error entry each time it is repeated, so the number of failing refreshes is
\* bounded through next_id.
GetLogs(source, limit, level) ==
  /\ read_fails(files, log_sources, source) => next_id < MaxEvents
  /\ \E ts \in TimeSeqs(Len(new_lines(log_sources, source))) :
       LET r == read_file_content(Mem, files, log_sources, logger_aliases,
                                  source, ts)
       IN /\ SetMem(r.m)
          /\ log_sources' = r.srcs
          /\ ret' = Ret("get_logs", r.outcome, source, limit, level,
                        IF r.outcome = "ok"
                        THEN get_logs(buffer_of(r.m, source), limit, level)
                        ELSE <<>>)
  /\ UNCHANGED <<logger_aliases, files, events, attached_targets, confvars,
                 threadvars, termvars>>

\* LogMonitor.add_source(name, path)
AddSource(name, path) ==
  /\ events < MaxEvents
  /\ events' = events + 1
  /\ LET fresh == (name :> [path |-> path, last_position |-> 0,
                            last_modified |-> 0]) @@ log_sources
     IN \E ts \in TimeSeqs(Len(lines_from(files, fresh, name))) :
          LET r == add_source(Mem, files, log_sources, logger_aliases, name,
                              path, ts)
          IN /\ SetMem(r.m)
             /\ log_sources' = r.srcs
             /\ ret' = Ret("add_source", r.outcome, name, 0, None, <<>>)
  /\ UNCHANGED <<logger_aliases, files, attached_targets, confvars,
                 threadvars, termvars>>

\* LogMonitor.clear_logs(source)
ClearLogs(source) ==
  /\ LET r == clear_logs(Mem, log_sources, source)
     IN /\ SetMem(r.m)
        /\ log_sources' = r.srcs
  /\ ret' = Ret("clear_logs", "ok", source, 0, None, <<>>)
  /\ UNCHANGED <<logger_aliases, files, events, attached_targets, confvars,
                 threadvars, termvars>>

\* another process appends a chunk to a log file (creating it when absent) at
\* time t
FileWrite(path, chunk, t) ==
  /\ events < MaxEvents
  /\ t >= clock
  /\ events' = events + 1
  /\ files' = (path :> [content |->
                          (IF path \in DOMAIN files
                           THEN files[path].content ELSE <<>>) \o chunk,
                        mtime |-> t,
                        readable |-> (IF path \in DOMAIN files
                                      THEN files[path].readable ELSE TRUE)])
              @@ files
  /\ clock' = t
  /\ ret' = Ret("file_write", "ok", <<>>, 0, None, <<>>)
  /\ UNCHANGED <<log_buffers, deques, appended, next_id, logger_aliases,
                 log_sources, attached_targets, confvars, threadvars, termvars>>

\* the file is emptied in place at time t (rotation by truncation)
FileTruncate(path, t) ==
  /\ events < MaxEvents
  /\ t >= clock
  /\ path \in DOMAIN files
  /\ files[path].content # <<>>
  /\ events' = events + 1
  /\ files' = [files EXCEPT ![path].content = <<>>, ![path].mtime = t]
  /\ clock' = t
  /\ ret' = Ret("file_truncate", "ok", <<>>, 0, None, <<>>)
  /\ UNCHANGED <<log_buffers, deques, appended, next_id, logger_aliases,
                 log_sources, attached_targets, confvars, threadvars, termvars>>

\* the file is removed (rotation by renaming)
FileRemove(path) ==
  /\ events < MaxEvents
  /\ path \in DOMAIN files
  /\ events' = events + 1
  /\ files' = [p \in DOMAIN files \ {path} |-> files[p]]
  /\ ret' = Ret("file_remove", "ok", <<>>, 0, None, <<>>)
  /\ UNCHANGED <<sinkvars, logger_aliases, log_sources, attached_targets,
                 confvars, threadvars, termvars>>

\* the file's permissions change: reading is denied or allowed again
FileChmod(path, readable) ==
  /\ events < MaxEvents
  /\ path \in DOMAIN files
  /\ files[path].readable # readable
  /\ events' = events + 1
  /\ files' = [files EXCEPT ![path].readable = readable]
  /\ ret' = Ret("file_chmod", "ok", <<>>, 0, None, <<>>)
  /\ UNCHANGED <<sinkvars, logger_aliases, log_sources, attached_targets,
                 confvars, threadvars, termvars>>

(* ---------------------------- reader thread --------------------------- *)
\* One thread runs get_logs(source) for a source without a file; the steps are
\* its statements, between which the interpreter may switch threads.

\* a thread inside get_logs: where it is, the deque object it was given
\* (0: the fresh deque() of the default) and the content that had then
Reader(at, ref, found) == [pc |-> at, ref |-> ref, found |-> found]

\* a copy that takes its first element early and the rest later
list_torn(found, now) ==
  IF Len(found) >= 1 /\ Len(now) >= 2
  THEN <<found[1]>> \o SubSeq(now, 2, Len(now))
  ELSE now

\* list(buffer): one call of the interpreter, which no other thread's
\* bytecode interrupts; found is what the deque held at the lookup, now
\* what it holds when list is called
list_buffer(found, now) == now

\* buffer = self.log_buffers.get(source, deque())
ReaderLookup(source) ==
  /\ reader.pc = "idle"
  /\ source \notin DOMAIN log_sources
  /\ reader' = IF source \in DOMAIN log_buffers
               THEN Reader("list", log_buffers[source],
                           deques[log_buffers[source]])
               ELSE Reader("list", 0, <<>>)
  /\ ret' = Ret("get_logs", "called", source, 0, None, <<>>)
  /\ UNCHANGED <<sinkvars, logger_aliases, log_sources, files, events,
                 attached_targets, confvars, termvars, pc, local, emitted,
                 sessions>>

\* logs = list(buffer), then the filter, the sort and the slice on the copy,
\* and the return
ReaderList(limit, level) ==
  /\ reader.pc = "list"
  /\ ret' = Ret("get_logs", "ok", ret.source, limit, level,
                get_logs(list_buffer(reader.found,
                                     IF reader.ref = 0 THEN <<>>
                                     ELSE deques[reader.ref]),
                         limit, level))
  /\ reader' = Reader("idle", reader.ref, reader.found)
  /\ UNCHANGED <<sinkvars, logger_aliases, log_sources, files, events,
                 attached_targets, confvars, termvars, pc, local, emitted,
                 sessions>>

(* -------------------------- producer threads -------------------------- *)
\* Each thread runs emit(R) EmitsPerThread times for a record R that resolves
\* to `source`; the steps are the statements of add_log_entry, between which
\* the interpreter may switch threads.

\* log_entry = {...}: the entry is built
ThreadBuild(th, source, level, message) ==
  /\ pc[th] = "idle"
  /\ emitted[th] < EmitsPerThread
  /\ local' = [local EXCEPT ![th].entry =
                 [id |-> next_id + 1, timestamp |-> clock, source |-> source,
                  level |-> stored_level(level), message |-> message]]
  /\ next_id' = next_id + 1
  /\ pc' = [pc EXCEPT ![th] = "check"]
  /\ UNCHANGED <<log_buffers, deques, appended, clock, emitted,
                 logger_aliases, log_sources, files, events, ret,
                 attached_targets, confvars, termvars,
                 sessions, reader>>

\* if source not in self.log_buffers:
ThreadCheck(th) ==
  /\ pc[th] = "check"
  /\ pc' = [pc EXCEPT ![th] =
              IF local[th].entry.source \notin DOMAIN log_buffers
              THEN "create" ELSE "load"]
  /\ UNCHANGED <<sinkvars, local, emitted, logger_aliases, log_sources, files,
                 events, ret, attached_targets, confvars, termvars,
                 sessions, reader>>

\* self.log_buffers[source] = deque(maxlen=self.max_entries)
ThreadCreate(th) ==
  /\ pc[th] = "create"
  /\ deques' = Append(deques, <<>>)
  /\ appended' = Append(appended, <<>>)
  /\ log_buffers' = (local[th].entry.source :> (Len(deques) + 1)) @@ log_buffers
  /\ pc' = [pc EXCEPT ![th] = "load"]
  /\ UNCHANGED <<next_id, clock, local, emitted, logger_aliases, log_sources,
                 files, events, ret, attached_targets, confvars, termvars,
                 sessions, reader>>

\* self.log_buffers[source] is looked up ...
ThreadLoad(th) ==
  /\ pc[th] = "load"
  /\ local' = [local EXCEPT ![th].ref = log_buffers[local[th].entry.source]]
  /\ pc' = [pc EXCEPT ![th] = "append"]
  /\ UNCHANGED <<sinkvars, emitted, logger_aliases, log_sources, files,
                 events, ret, attached_targets, confvars, termvars,
                 sessions, reader>>

\* ... and .append(log_entry) runs on the deque found; emit returns
ThreadAppend(th) ==
  /\ pc[th] = "append"
  /\ deques' = [deques EXCEPT ![local[th].ref] =
                  deque_append(@, local[th].entry)]
  /\ appended' = [appended EXCEPT ![local[th].ref] =
                    Append(@, local[th].entry)]
  /\ pc' = [pc EXCEPT ![th] = "idle"]
  /\ emitted' = [emitted EXCEPT ![th] = @ + 1]
  /\ UNCHANGED <<log_buffers, next_id, clock, local, logger_aliases,
                 log_sources, files, events, ret, attached_targets, confvars, termvars,
                 sessions, reader>>

(* ------------------------- the terminal engine ------------------------ *)
\* con5013/core/terminal_engine.py
S_help == <<"h","e","l","p">>
S_clear == <<"c","l","e","a","r">>
S_status == <<"s","t","a","t","u","s">>
S_routes == <<"r","o","u","t","e","s">>
S_config == <<"c","o","n","f","i","g">>
S_logs == <<"l","o","g","s">>
S_system == <<"s","y","s","t","e","m">>
S_history == <<"h","i","s","t","o","r","y">>
S_http == <<"h","t","t","p">>
S_httpfull == <<"h","t","t","p","f","u","l","l">>
S_py == <<"p","y">>
S_boom == <<"b","o","o","m">>
S_echo == <<"e","c","h","o">>
S_count == <<"c","o","u","n","t">>
S_bare == <<"b","a","r","e">>

S_not_found_head == <<"C","o","m","m","a","n","d"," ","'">>
S_not_found_tail ==
  <<"'"," ","n","o","t"," ","f","o","u","n","d","."," ","T","y","p","e"," ",
    "'","h","e","l","p","'"," ","f","o","r"," ","a","v","a","i","l","a","b",
    "l","e"," ","c","o","m","m","a","n","d","s",".">>
S_parse_error_head ==
  <<"C","o","m","m","a","n","d"," ","p","a","r","s","i","n","g"," ",
    "e","r","r","o","r",":"," ">>
S_no_closing_quotation ==
  <<"N","o"," ","c","l","o","s","i","n","g"," ","q","u","o","t","a","t","i",
    "o","n">>
S_no_escaped_character ==
  <<"N","o"," ","e","s","c","a","p","e","d"," ","c","h","a","r","a","c","t",
    "e","r">>
S_exec_error_head ==
  <<"C","o","m","m","a","n","d"," ","e","x","e","c","u","t","i","o","n"," ",
    "e","r","r","o","r",":"," ">>
S_recent_commands ==
  <<"R","e","c","e","n","t"," ","C","o","m","m","a","n","d","s",":","\n">>
S_py_disabled ==
  <<"P","y","t","h","o","n"," ","e","v","a","l"," ","d","i","s","a","b",
    "l","e","d","."," ","E","n","a","b","l","e"," ","C","O","N","5","0",
    "1","3","_","T","E","R","M","I","N","A","L","_","A","L","L","O","W",
    "_","P","Y"," ","t","o"," ","u","s","e",".">>

Digits == <<"0","1","2","3","4","5","6","7","8","9">>

\* str.isdigit() on ASCII text
isdigit(s) ==
  /\ s # <<>>
  /\ \A i \in 1..Len(s) : \E d \in 1..10 : Digits[d] = s[i]

RECURSIVE int(_)
\* int(s) for a string of decimal digits
int(s) ==
  IF s = <<>>
  THEN 0
  ELSE 10 * int(SubSeq(s, 1, Len(s) - 1))
       + (CHOOSE d \in 0..9 : Digits[d + 1] = s[Len(s)])

RECURSIVE str(_)
\* str(n) for a natural number
str(n) == IF n < 10 THEN <<Digits[n + 1]>>
          ELSE str(n \div 10) \o <<Digits[(n % 10) + 1]>>

RECURSIVE join(_, _)
\* sep.join(parts)
join(sep, parts) ==
  IF parts = <<>> THEN <<>>
  ELSE IF Len(parts) = 1 THEN parts[1]
  ELSE parts[1] \o sep \o join(sep, Tail(parts))

\* the characters shlex treats as separators
ShlexWhitespace == {" ", "\t", "\r", "\n"}

RECURSIVE shlex_scan(_, _, _, _, _)
\* shlex.shlex(posix=True, whitespace_split=True) reading s from position i:
\* st is the lexer state, tok the token being built, out the tokens read.
\* The result is [error, parts]; error is None, or the ValueError's message.
shlex_scan(s, i, st, tok, out) ==
  IF i > Len(s)
  THEN CASE st = "ws" -> [error |-> None, parts |-> out]
         [] st = "word" -> [error |-> None, parts |-> Append(out, tok)]
         [] st \in {"sq", "dq"} ->
              [error |-> Some(S_no_closing_quotation), parts |-> <<>>]
         [] OTHER ->
              [error |-> Some(S_no_escaped_character), parts |-> <<>>]
  ELSE LET c == s[i]
       IN CASE st = "ws" ->
                 IF c \in ShlexWhitespace
                 THEN shlex_scan(s, i + 1, "ws", <<>>, out)
                 ELSE IF c = "\\" THEN shlex_scan(s, i + 1, "esc", <<>>, out)
                 ELSE IF c = "'" THEN shlex_scan(s, i + 1, "sq", <<>>, out)
                 ELSE IF c = "\"" THEN shlex_scan(s, i + 1, "dq", <<>>, out)
                 ELSE shlex_scan(s, i + 1, "word", <<c>>, out)
            [] st = "word" ->
                 IF c \in ShlexWhitespace
                 THEN shlex_scan(s, i + 1, "ws", <<>>, Append(out, tok))
                 ELSE IF c = "\\" THEN shlex_scan(s, i + 1, "esc", tok, out)
                 ELSE IF c = "'" THEN shlex_scan(s, i + 1, "sq", tok, out)
                 ELSE IF c = "\"" THEN shlex_scan(s, i + 1, "dq", tok, out)
                 ELSE shlex_scan(s, i + 1, "word", Append(tok, c), out)
            [] st = "sq" ->
                 IF c = "'" THEN shlex_scan(s, i + 1, "word", tok, out)
                 ELSE shlex_scan(s, i + 1, "sq", Append(tok, c), out)
            [] st = "dq" ->
                 IF c = "\"" THEN shlex_scan(s, i + 1, "word", tok, out)
                 ELSE IF c = "\\" THEN shlex_scan(s, i + 1, "dqesc", tok, out)
                 ELSE shlex_scan(s, i + 1, "dq", Append(tok, c), out)
            [] st = "esc" ->
                 shlex_scan(s, i + 1, "word", Append(tok, c), out)
            [] OTHER ->
                 IF c \in {"\\", "\""}
                 THEN shlex_scan(s, i + 1, "dq", Append(tok, c), out)
                 ELSE shlex_scan(s, i + 1, "dq", tok \o <<"\\", c>>, out)

RECURSIVE split_scan(_, _, _, _)
\* str.split() reading s from position i: tok is the run being built
split_scan(s, i, tok, out) ==
  IF i > Len(s)
  THEN IF tok = <<>> THEN out ELSE Append(out, tok)
  ELSE IF s[i] \in ShlexWhitespace
  THEN split_scan(s, i + 1, <<>>, IF tok = <<>> THEN out ELSE Append(out, tok))
  ELSE split_scan(s, i + 1, Append(tok, s[i]), out)

\* a tokenizer that splits on whitespace and knows no quoting
split_whitespace(command) ==
  [error |-> None, parts |-> split_scan(command, 1, <<>>, <<>>)]

\* a tokenizer that gives no token, and no error, for a line it cannot read
shlex_split_lenient(command) ==
  IF shlex_scan(command, 1, "ws", <<>>, <<>>).error # None
  THEN [error |-> None, parts |-> <<>>]
  ELSE shlex_scan(command, 1, "ws", <<>>, <<>>)

\* shlex.split(command)
shlex_split(command) == shlex_scan(command, 1, "ws", <<>>, <<>>)

\* the dict execute returns; command and timestamp are None when the key is
\* absent
Result(output, type, command, timestamp) ==
  [output |-> output, type |-> type, command |-> command,
   timestamp |-> timestamp]

\* what a handler hands back: it raised (output is the exception's text), or
\* it returned a dict, a str or another value (output is its text)
Returned(kind, output, type) ==
  [raised |-> FALSE, kind |-> kind, output |-> output, type |-> type]
Raised(message) ==
  [raised |-> TRUE, kind |-> "exception", output |-> message, type |-> "error"]

\* time.strftime('%H:%M:%S', time.localtime(t)) for the first seconds of the
\* epoch, in UTC
strftime_hms(t) == <<"0","0",":","0","0",":","0">> \o str(t)

\* list(self.history)[-limit:]
last_items(items, limit) ==
  IF limit = 0 \/ limit >= Len(items)
  THEN items
  ELSE SubSeq(items, Len(items) - limit + 1, Len(items))

\* history_command(args)
history_command(args, hist) ==
  LET limit == IF args # <<>> /\ isdigit(args[1]) THEN int(args[1]) ELSE 20
      items == last_items(hist, limit)
  IN Returned("dict",
              S_recent_commands \o
                join(<<"\n">>,
                     [k \in 1..Len(items) |->
                        <<" ", " ">> \o strftime_hms(items[k].timestamp)
                          \o <<" ", ">", " ">> \o items[k].command]),
              "text")

(* the evaluator of py_command. Python values are ints, None and the objects
   the namespace is seeded with; the code accepted is the subset of Python
   without inner blanks: statements separated by ';', each an assignment
   name=expression or an expression, an expression being an atom (a decimal
   number, a name, None), a product atom*atom, or (name:=atom). *)
S_None == <<"N","o","n","e">>
S_result == <<"r","e","s","u","l","t">>
S_current_app == <<"c","u","r","r","e","n","t","_","a","p","p">>
S_flask_object == <<"<","F","l","a","s","k"," ","'","s","h","o","p","'",">">>
S_builtins == <<"_","_","b","u","i","l","t","i","n","s","_","_">>
\* str(SAFE_BUILTINS)
S_safe_builtins ==
  <<"{","'","l","e","n","'",":"," ","<","b","u","i","l","t","-","i","n",
    " ","f","u","n","c","t","i","o","n"," ","l","e","n",">",","," ","'",
    "s","t","r","'",":"," ","<","c","l","a","s","s"," ","'","s","t","r",
    "'",">",","," ","'","i","n","t","'",":"," ","<","c","l","a","s","s",
    " ","'","i","n","t","'",">",","," ","'","f","l","o","a","t","'",":",
    " ","<","c","l","a","s","s"," ","'","f","l","o","a","t","'",">",",",
    " ","'","b","o","o","l","'",":"," ","<","c","l","a","s","s"," ","'",
    "b","o","o","l","'",">",","," ","'","m","i","n","'",":"," ","<","b",
    "u","i","l","t","-","i","n"," ","f","u","n","c","t","i","o","n"," ",
    "m","i","n",">",","," ","'","m","a","x","'",":"," ","<","b","u","i",
    "l","t","-","i","n"," ","f","u","n","c","t","i","o","n"," ","m","a",
    "x",">",","," ","'","s","u","m","'",":"," ","<","b","u","i","l","t",
    "-","i","n"," ","f","u","n","c","t","i","o","n"," ","s","u","m",">",
    ","," ","'","s","o","r","t","e","d","'",":"," ","<","b","u","i","l",
    "t","-","i","n"," ","f","u","n","c","t","i","o","n"," ","s","o","r",
    "t","e","d",">",","," ","'","a","n","y","'",":"," ","<","b","u","i",
    "l","t","-","i","n"," ","f","u","n","c","t","i","o","n"," ","a","n",
    "y",">",","," ","'","a","l","l","'",":"," ","<","b","u","i","l","t",
    "-","i","n"," ","f","u","n","c","t","i","o","n"," ","a","l","l",">",
    ","," ","'","a","b","s","'",":"," ","<","b","u","i","l","t","-","i",
    "n"," ","f","u","n","c","t","i","o","n"," ","a","b","s",">",","," ",
    "'","r","o","u","n","d","'",":"," ","<","b","u","i","l","t","-","i",
    "n"," ","f","u","n","c","t","i","o","n"," ","r","o","u","n","d",">",
    ","," ","'","r","a","n","g","e","'",":"," ","<","c","l","a","s","s",
    " ","'","r","a","n","g","e","'",">",","," ","'","e","n","u","m","e",
    "r","a","t","e","'",":"," ","<","c","l","a","s","s"," ","'","e","n",
    "u","m","e","r","a","t","e","'",">",","," ","'","l","i","s","t","'",
    ":"," ","<","c","l","a","s","s"," ","'","l","i","s","t","'",">",",",
    " ","'","d","i","c","t","'",":"," ","<","c","l","a","s","s"," ","'",
    "d","i","c","t","'",">",","," ","'","s","e","t","'",":"," ","<","c",
    "l","a","s","s"," ","'","s","e","t","'",">",","," ","'","t","u","p",
    "l","e","'",":"," ","<","c","l","a","s","s"," ","'","t","u","p","l",
    "e","'",">",","," ","'","p","r","i","n","t","'",":"," ","<","b","u",
    "i","l","t","-","i","n"," ","f","u","n","c","t","i","o","n"," ","p",
    "r","i","n","t",">",","," ","'","z","i","p","'",":"," ","<","c","l",
    "a","s","s"," ","'","z","i","p","'",">",","," ","'","r","e","p","r",
    "'",":"," ","<","b","u","i","l","t","-","i","n"," ","f","u","n","c",
    "t","i","o","n"," ","r","e","p","r",">","}">>
S_usage_py ==
  <<"U","s","a","g","e",":"," ","p","y"," ","<","e","x","p","r","e","s","s",
    "i","o","n",">">>
S_eval_error_head ==
  <<"E","v","a","l"," ","e","r","r","o","r",":"," ">>
S_invalid_syntax ==
  <<"i","n","v","a","l","i","d"," ","s","y","n","t","a","x"," ","(","<",
    "s","t","r","i","n","g",">",","," ","l","i","n","e"," ","1",")">>
S_name_head == <<"n","a","m","e"," ","'">>
S_name_tail ==
  <<"'"," ","i","s"," ","n","o","t"," ","d","e","f","i","n","e","d">>
S_unsupported_operand ==
  <<"u","n","s","u","p","p","o","r","t","e","d"," ","o","p","e","r","a","n",
    "d"," ","t","y","p","e","(","s",")"," ","f","o","r"," ","*">>
S_code_executed ==
  <<"C","o","d","e"," ","e","x","e","c","u","t","e","d",".">>

IntV(n) == [kind |-> "int", n |-> n]
NoneV == [kind |-> "none", n |-> 0]
AppV == [kind |-> "app", n |-> 0]
BuiltinsV == [kind |-> "builtins", n |-> 0]

\* str(value)
str_value(v) ==
  CASE v.kind = "int" -> str(v.n)
    [] v.kind = "none" -> S_None
    [] v.kind = "builtins" -> S_safe_builtins
    [] OTHER -> S_flask_object

\* the names the namespace is seeded with and that are not persisted
SeededNames == {S_builtins, S_app, S_current_app}

\* an identifier: lower-case letters and '_', and not the keyword None
is_name(s) ==
  /\ s # <<>>
  /\ \A i \in 1..Len(s) :
       s[i] = "_" \/ \E k \in 1..Len(LowerChars) : LowerChars[k] = s[i]

is_atom(s) == isdigit(s) \/ is_name(s) \/ s = S_None

\* the first position of character c in s, 0 when there is none
find(s, c) ==
  IF \E i \in 1..Len(s) : s[i] = c
  THEN CHOOSE i \in 1..Len(s) : s[i] = c /\ \A j \in 1..(i - 1) : s[j] # c
  ELSE 0

is_product(s) ==
  /\ find(s, "*") > 0
  /\ is_atom(SubSeq(s, 1, find(s, "*") - 1))
  /\ is_atom(SubSeq(s, find(s, "*") + 1, Len(s)))

is_walrus(s) ==
  /\ Len(s) >= 6
  /\ s[1] = "("
  /\ s[Len(s)] = ")"
  /\ find(s, ":") > 2
  /\ find(s, ":") + 1 < Len(s)
  /\ s[find(s, ":") + 1] = "="
  /\ is_name(SubSeq(s, 2, find(s, ":") - 1))
  /\ is_atom(SubSeq(s, find(s, ":") + 2, Len(s) - 1))

\* compile(s, mode='eval') succeeds
is_expr(s) == is_atom(s) \/ is_product(s) \/ is_walrus(s)

is_assignment(s) ==
  /\ find(s, "=") > 1
  /\ is_name(SubSeq(s, 1, find(s, "=") - 1))
  /\ is_expr(SubSeq(s, find(s, "=") + 1, Len(s)))

is_stmt(s) == is_expr(s) \/ is_assignment(s)

RECURSIVE split_semicolon(_)
\* the text of s cut at position i, that of its first ';' (0: there is none)
split_at(s, i) ==
  IF i = 0
  THEN IF strip(s) = <<>> THEN <<>> ELSE <<strip(s)>>
  ELSE <<strip(SubSeq(s, 1, i - 1))>>
       \o split_semicolon(SubSeq(s, i + 1, Len(s)))

\* the simple statements of a line: the text between ';', stripped; a ';'
\* that ends the line starts no statement
split_semicolon(s) == split_at(s, find(s, ";"))

\* every statement of a line compiles, and there is one
are_stmts(stmts) ==
  /\ stmts # <<>>
  /\ \A k \in 1..Len(stmts) : is_stmt(stmts[k])

\* compile(s, mode='exec') succeeds
is_program(s) == are_stmts(split_semicolon(s))

\* what evaluating leaves: the value or the exception's message, and the
\* namespace as it is then
Value(v, ns) == [ok |-> TRUE, value |-> v, error |-> <<>>, ns |-> ns]
Error(message, ns) ==
  [ok |-> FALSE, value |-> NoneV, error |-> message, ns |-> ns]

eval_atom(s, ns) ==
  IF isdigit(s) THEN Value(IntV(int(s)), ns)
  ELSE IF s = S_None THEN Value(NoneV, ns)
  ELSE IF s \in DOMAIN ns THEN Value(ns[s], ns)
  ELSE Error(S_name_head \o s \o S_name_tail, ns)

\* a * b for two evaluated operands
multiply(a, b, ns) ==
  IF ~a.ok THEN a
  ELSE IF ~b.ok THEN b
  ELSE IF a.value.kind = "int" /\ b.value.kind = "int"
  THEN Value(IntV(a.value.n * b.value.n), ns)
  ELSE Error(S_unsupported_operand, ns)

\* the binding of name to an evaluated value v: made unless v is an
\* exception; value is what the construct evaluates to
bind(name, v, value) ==
  IF v.ok THEN Value(value, (name :> v.value) @@ v.ns) ELSE v

\* (name := atom)
eval_walrus(name, v) == bind(name, v, v.value)

\* eval(s, ns, ns) for an expression that compiles
eval_expr(s, ns) ==
  IF is_atom(s)
  THEN eval_atom(s, ns)
  ELSE IF is_product(s)
  THEN multiply(eval_atom(SubSeq(s, 1, find(s, "*") - 1), ns),
                eval_atom(SubSeq(s, find(s, "*") + 1, Len(s)), ns), ns)
  ELSE eval_walrus(SubSeq(s, 2, find(s, ":") - 1),
                   eval_atom(SubSeq(s, find(s, ":") + 2, Len(s) - 1), ns))

\* one simple statement run in ns
exec_stmt(s, ns) ==
  IF is_expr(s)
  THEN eval_expr(s, ns)
  ELSE bind(SubSeq(s, 1, find(s, "=") - 1),
            eval_expr(SubSeq(s, find(s, "=") + 1, Len(s)), ns), NoneV)

RECURSIVE exec_stmts(_, _, _)
\* exec after statement k gave r: it stops at the first exception, the
\* bindings made before it staying in the namespace
exec_rest(stmts, r, k) ==
  IF r.ok THEN exec_stmts(stmts, r.ns, k + 1) ELSE r

\* exec(code, ns, ns) from statement k on
exec_stmts(stmts, ns, k) ==
  IF k > Len(stmts)
  THEN Value(NoneV, ns)
  ELSE exec_rest(stmts, exec_stmt(stmts[k], ns), k)

\* a namespace stored as it is
persist_unfiltered(ns) == ns

\* {k: v for k, v in ns.items() if k not in {'__builtins__', 'app',
\* 'current_app'}}
persist(ns) == [k \in DOMAIN ns \ SeededNames |-> ns[k]]

\* ns = {'__builtins__': SAFE_BUILTINS}; ns.update(self._py_context);
\* ns['app'] = self.app; ns['current_app'] = current_app
seed(ctx) ==
  [k \in DOMAIN ctx \cup SeededNames |->
     IF k \in {S_app, S_current_app} THEN AppV
     ELSE IF k = S_builtins /\ k \notin DOMAIN ctx THEN BuiltinsV
     ELSE ctx[k]]

\* what a handler call leaves: what it handed back, self._py_context
\* afterwards, whether what the command carries out was started (eval or
\* exec called, a request dispatched), and the namespace the evaluation
\* ended with
Effect(handed, ctx, ran, ns) ==
  [handed |-> handed, py_context |-> ctx, ran |-> ran, ns |-> ns]

\* an evaluation that persists the namespace also when the code failed
py_evaluate_persist_always(expr, ctx) ==
  LET ns == seed(ctx)
      r == IF is_expr(expr) /\ find(expr, ";") = 0 /\ find(expr, "\n") = 0
           THEN eval_expr(expr, ns)
           ELSE IF is_program(expr)
           THEN exec_stmts(split_semicolon(expr), ns, 1)
           ELSE Error(S_invalid_syntax, ns)
  IN Effect(IF r.ok THEN Returned("dict", str_value(r.value), "text")
            ELSE Returned("dict", S_eval_error_head \o r.error, "error"),
            persist(r.ns), TRUE, r.ns)

\* py_command after eval(expr, ns, ns) gave r (lines 338-346): 'None' is
\* returned for a None result before the context is persisted
eval_done(r, ctx) ==
  IF ~r.ok
  THEN Effect(Returned("dict", S_eval_error_head \o r.error, "error"), ctx,
              TRUE, r.ns)
  ELSE IF r.value.kind = "none"
  THEN Effect(Returned("dict", S_None, "text"), ctx, TRUE, r.ns)
  ELSE Effect(Returned("dict", str_value(r.value), "text"), persist(r.ns),
              TRUE, r.ns)

\* py_command after exec(expr, ns, ns) gave r (lines 349-357)
exec_done(r, ctx) ==
  IF ~r.ok
  THEN Effect(Returned("dict", S_eval_error_head \o r.error, "error"), ctx,
              TRUE, r.ns)
  ELSE Effect(Returned("dict",
                IF S_result \in DOMAIN r.ns /\ r.ns[S_result].kind # "none"
                THEN str_value(r.ns[S_result])
                ELSE S_code_executed,
                "text"),
              persist(r.ns), TRUE, r.ns)

\* py_command from `try:` on (lines 316-361) for the code expr: eval first
\* unless the code holds a newline or ';', exec when eval does not compile
py_evaluate(expr, ctx) ==
  IF find(expr, "\n") = 0 /\ find(expr, ";") = 0 /\ is_expr(expr)
  THEN eval_done(eval_expr(expr, seed(ctx)), ctx)
  ELSE IF ~is_program(expr)
  THEN Effect(Returned("dict", S_eval_error_head \o S_invalid_syntax,
                       "error"), ctx, FALSE, seed(ctx))
  ELSE exec_done(exec_stmts(split_semicolon(expr), seed(ctx), 1), ctx)

\* py_command once the flag is on: the usage warning, or the evaluation
py_command_body(args, ctx) ==
  IF strip(join(<<" ">>, args)) = <<>>
  THEN Effect(Returned("dict", S_usage_py, "warning"), ctx, FALSE, <<>>)
  ELSE py_evaluate(strip(join(<<" ">>, args)), ctx)

\* self.config.get(key, default) for the entry of key
config_get(entry, default) == IF entry = None THEN default ELSE entry[1]

\* a py_command without the CON5013_TERMINAL_ALLOW_PY test
py_command_ungated(args, ctx, allow) == py_command_body(args, ctx)

\* py_command(args), self._py_context being ctx and the configuration's
\* entry CON5013_TERMINAL_ALLOW_PY being allow
py_command(args, ctx, allow) ==
  IF ~config_get(allow, FALSE)
  THEN Effect(Returned("dict", S_py_disabled, "warning"), ctx, FALSE, <<>>)
  ELSE py_command_body(args, ctx)

\* while True: pass
S_while_true_pass == <<"w","h","i","l","e"," ","T","r","u","e",":"," ","p","a","s","s">>

\* handler(args) does not return: py_command with the evaluator on and code
\* that loops for ever. exec runs it on the calling thread, and
\* self.timeout (line 27) is read by nothing that could stop it.
never_returns(handler, args, allow) ==
  /\ handler = "py_command"
  /\ config_get(allow, FALSE)
  /\ strip(join(<<" ">>, args)) = S_while_true_pass

S_usage_http ==
  <<"U","s","a","g","e",":"," ","h","t","t","p"," ","[","-","-","f","u",
    "l","l","|","-","f","]"," ","<","M","E","T","H","O","D",">"," ","<",
    "P","A","T","H",">"," ","[","J","S","O","N","]">>
S_usage_httpfull ==
  <<"U","s","a","g","e",":"," ","h","t","t","p","f","u","l","l"," ","<",
    "M","E","T","H","O","D",">"," ","<","P","A","T","H",">"," ","[","J",
    "S","O","N","]">>
S_unsupported_method ==
  <<"U","n","s","u","p","p","o","r","t","e","d"," ","m","e","t","h","o",
    "d",":"," ">>
S_invalid_json ==
  <<"I","n","v","a","l","i","d"," ","J","S","O","N",":"," ">>
S_expecting_value ==
  <<"E","x","p","e","c","t","i","n","g"," ","v","a","l","u","e",":"," ",
    "l","i","n","e"," ","1"," ","c","o","l","u","m","n"," ","1"," ","(",
    "c","h","a","r"," ","0",")">>
S_http_error ==
  <<"H","T","T","P"," ","e","r","r","o","r",":"," ">>
S_HTTP ==
  <<"H","T","T","P"," ">>
S_status_ok ==
  <<"\n","S","t","a","t","u","s",":"," ","2","0","0"," ","O","K">>
S_full ==
  <<"-","-","f","u","l","l">>
S_f ==
  <<"-","f">>
S_route_ok ==
  <<"/","o","k">>
S_route_boom ==
  <<"/","b","o","o","m">>

HttpMethods ==
  {<<"G","E","T">>, <<"P","O","S","T">>, <<"P","U","T">>,
   <<"D","E","L","E","T","E">>, <<"P","A","T","C","H">>}

\* what a handler that may send a request leaves: what it hands back and
\* whether the request was dispatched
Sent(handed, dispatched) == [handed |-> handed, ran |-> dispatched]

\* json.loads(text): a number and {} parse, 'x' does not; the message is the
\* one json gives for text that starts with no value
json_loads(text) ==
  IF isdigit(text) \/ text = <<"{", "}">>
  THEN [ok |-> TRUE, error |-> <<>>]
  ELSE [ok |-> FALSE, error |-> S_expecting_value]

\* _exec_http(method, path, data, full): the request goes to the host
\* application through app.test_client(). The host has a route /boom whose
\* view raises RuntimeError('boom') and propagates exceptions; every other
\* path is answered. Of the text returned, the request line and the status
\* line are modelled.
exec_http(method, path) ==
  IF path = S_route_boom
  THEN Raised(S_boom)
  ELSE Returned("dict", S_HTTP \o method \o <<" ">> \o path \o S_status_ok,
                "text")

\* the try/except around _exec_http
try_exec_http(sent) ==
  IF sent.raised
  THEN Returned("dict", S_http_error \o sent.output, "error")
  ELSE sent

\* an invoker that sends the request without looking at the method or at the
\* JSON text
request_unchecked(cleaned, usage) ==
  IF Len(cleaned) < 2
  THEN Sent(Returned("dict", usage, "warning"), FALSE)
  ELSE Sent(try_exec_http(exec_http(upper(cleaned[1]), cleaned[2])), TRUE)

\* http_command and httpfull_command from `method = ...upper()` on, for the
\* arguments left once the flags are removed
request(cleaned, usage) ==
  IF upper(cleaned[1]) \notin HttpMethods
  THEN Sent(Returned("dict", S_unsupported_method \o upper(cleaned[1]),
                     "error"), FALSE)
  ELSE IF Len(cleaned) < 2
  THEN Sent(Returned("dict", usage, "warning"), FALSE)
  ELSE IF Len(cleaned) > 2
          /\ ~json_loads(join(<<" ">>, SubSeq(cleaned, 3, Len(cleaned)))).ok
  THEN Sent(Returned("dict",
                     S_invalid_json
                     \o json_loads(join(<<" ">>,
                                        SubSeq(cleaned, 3, Len(cleaned)))).error,
                     "error"), FALSE)
  ELSE Sent(try_exec_http(exec_http(upper(cleaned[1]), cleaned[2])), TRUE)

\* http_command(args)
http_command(args) ==
  IF SelectSeq(args, LAMBDA a : a \notin {S_full, S_f}) = <<>>
  THEN Sent(Returned("dict", S_usage_http, "warning"), FALSE)
  ELSE request(SelectSeq(args, LAMBDA a : a \notin {S_full, S_f}),
               S_usage_http)

\* httpfull_command(args)
httpfull_command(args) ==
  IF args = <<>>
  THEN Sent(Returned("dict", S_usage_httpfull, "warning"), FALSE)
  ELSE request(args, S_usage_httpfull)

\* handler(args) for the handler registered under a name. The built-in
\* commands whose text depends on the host application (help, status, routes,
\* config, logs, system, http, httpfull) return a dict of type text here; their
\* output is named, not computed. "boom", "echo", "count" and "bare" are
\* handlers an application registers: one raises, one returns a str, one
\* returns an int, one returns a dict without the keys 'output' and 'type'
\* (type "missing" stands for the absent key).
\* hist is self.history, ctx self._py_context, allow the configuration's
\* CON5013_TERMINAL_ALLOW_PY.
run_handler(handler, args, hist, ctx, allow) ==
  CASE handler = "clear_command" ->
         Effect(Returned("dict", <<>>, "clear"), ctx, FALSE, <<>>)
    [] handler = "history_command" ->
         Effect(history_command(args, hist), ctx, FALSE, <<>>)
    [] handler = "py_command" -> py_command(args, ctx, allow)
    [] handler = "http_command" ->
         Effect(http_command(args).handed, ctx, http_command(args).ran, <<>>)
    [] handler = "httpfull_command" ->
         Effect(httpfull_command(args).handed, ctx,
                httpfull_command(args).ran, <<>>)
    [] handler = "boom" -> Effect(Raised(S_boom), ctx, FALSE, <<>>)
    [] handler = "echo" ->
         Effect(Returned("str", join(<<" ">>, args), ""), ctx, FALSE, <<>>)
    [] handler = "count" ->
         Effect(Returned("other", str(Len(args)), ""), ctx, FALSE, <<>>)
    [] handler = "bare" ->
         Effect(Returned("dict", <<>>, "missing"), ctx, FALSE, <<>>)
    [] OTHER ->
         Effect(Returned("dict", <<"<", handler, ">">>, "text"), ctx, FALSE,
                <<>>)

\* handler.__doc__: the built-in handlers have a docstring, which is named
\* here, not spelled out; the handlers an application registers in this model
\* ("boom", "echo", "count", "bare", "my_help") are written without one
doc(handler) ==
  IF handler \in {"boom", "echo", "count", "bare", "my_help"}
  THEN None
  ELSE Some(<<"<", "doc", handler, ">">>)

\* self.commands[name] = {'handler': handler, 'description': description or
\* getattr(handler, '__doc__', 'No description')}; the entry has no key
\* 'builtin'
add_command(cmds, name, handler, description) ==
  (name :> [handler |-> handler, builtin |-> FALSE,
            description |-> IF description = <<>> THEN doc(handler)
                            ELSE Some(description)]) @@ cmds

\* @self.command(name, description) applied to func
command_decorator(cmds, name, description, func) ==
  add_command(cmds, name, func, description)

\* the commands _initialize_builtin_commands registers, each by
\* @self.command(name) on a function with a docstring
builtin_commands ==
  LET funcs ==
        (S_help :> "help_command")
        @@ (S_clear :> "clear_command")
        @@ (S_status :> "status_command")
        @@ (S_routes :> "routes_command")
        @@ (S_config :> "config_command")
        @@ (S_logs :> "logs_command")
        @@ (S_system :> "system_command")
        @@ (S_history :> "history_command")
        @@ (S_http :> "http_command")
        @@ (S_httpfull :> "httpfull_command")
        @@ (S_py :> "py_command")
  IN [n \in DOMAIN funcs |-> command_decorator(<<>>, n, <<>>, funcs[n])[n]]

\* TerminalEngine.get_available_commands(): name -> description
get_available_commands(cmds) == [n \in DOMAIN cmds |-> cmds[n].description]

\* an error that does not say which command was not found
not_found_unnamed(cmd_name) ==
  Result(<<"C","o","m","m","a","n","d"," ">> \o S_not_found_tail, "error",
         None, None)

\* the Result for a first token that is not in self.commands
not_found(cmd_name) ==
  Result(S_not_found_head \o cmd_name \o S_not_found_tail, "error", None,
         None)

\* an append to a deque without maxlen
history_append_unbounded(hist, item) == Append(hist, item)

\* self.history.append(item) on deque(maxlen=CON5013_TERMINAL_HISTORY_SIZE)
history_append(hist, item) ==
  LET s == Append(hist, item)
  IN SubSeq(s, Len(s) - Min(Len(s), MaxHistory) + 1, Len(s))

\* `context or {}`: None and the empty dict both give the empty dict
context_or_empty(context) == IF context = None THEN <<>> ELSE context[1]

\* an execute whose handler call is not inside try/except: an exception
\* leaves execute (type "raised" stands for the call not returning)
format_unguarded(handed, command, t) ==
  IF handed.raised
  THEN Result(handed.output, "raised", None, None)
  ELSE Result(handed.output, IF handed.kind = "dict" THEN handed.type ELSE "text",
              Some(command), Some(t))

\* execute from `result = handler(args)` on: a str becomes a text Result,
\* a dict is passed through, another value is stringified, an exception
\* becomes an error Result; command and timestamp are added
format_result(handed, command, t) ==
  IF handed.raised
  THEN Result(S_exec_error_head \o handed.output, "error", Some(command),
              Some(t))
  ELSE Result(handed.output, IF handed.kind = "dict" THEN handed.type ELSE "text",
              Some(command), Some(t))

\* what execute leaves: the Result, self.history, self._py_context and the
\* handler calls made
Outcome(value, hist, ctx, made) ==
  [result |-> value, history |-> hist, py_context |-> ctx, calls |-> made]

\* the handler call of execute and what is made of it
dispatch(command, t, cmds, hist, ctx, allow, parts) ==
  LET h == cmds[parts[1]].handler
      r == run_handler(h, Tail(parts), hist, ctx, allow)
  IN Outcome(format_result(r.handed, command, t), hist, r.py_context,
               <<[handler |-> h, args |-> Tail(parts), seen |-> hist,
                  ran |-> r.ran, ns |-> r.ns, before |-> ctx]>>)

\* an execute that looks the command up before it records it
execute_lookup_first(command, context, t, cmds, hist, ctx, allow) ==
  LET sp == shlex_split(command)
      known == sp.error = None /\ sp.parts # <<>> /\ sp.parts[1] \in DOMAIN cmds
      hist1 == IF known
               THEN history_append(hist, [command |-> command, timestamp |-> t,
                                          context |-> context_or_empty(context)])
               ELSE hist
  IN IF strip(command) = <<>>
     THEN Outcome(Result(<<>>, "empty", None, None), hist, ctx, <<>>)
     ELSE IF sp.error # None
     THEN Outcome(Result(S_parse_error_head \o sp.error[1], "error", None,
                           None), hist1, ctx, <<>>)
     ELSE IF sp.parts = <<>>
     THEN Outcome(Result(<<>>, "empty", None, None), hist1, ctx, <<>>)
     ELSE IF sp.parts[1] \notin DOMAIN cmds
     THEN Outcome(not_found(sp.parts[1]), hist1, ctx, <<>>)
     ELSE dispatch(command, t, cmds, hist1, ctx, allow, sp.parts)

\* TerminalEngine.execute(command, context), time.time() giving t, on an
\* engine whose commands, history and _py_context are cmds, hist and ctx
execute(command, context, t, cmds, hist, ctx, allow) ==
  IF strip(command) = <<>>
  THEN Outcome(Result(<<>>, "empty", None, None), hist, ctx, <<>>)
  ELSE LET hist1 == history_append(hist,
                      [command |-> command, timestamp |-> t,
                       context |-> context_or_empty(context)])
           sp == shlex_split(command)
       IN IF sp.error # None
          THEN Outcome(Result(S_parse_error_head \o sp.error[1], "error",
                                None, None), hist1, ctx, <<>>)
          ELSE IF sp.parts = <<>>
          THEN Outcome(Result(<<>>, "empty", None, None), hist1, ctx, <<>>)
          ELSE IF sp.parts[1] \notin DOMAIN cmds
          THEN Outcome(not_found(sp.parts[1]), hist1, ctx, <<>>)
          ELSE dispatch(command, t, cmds, hist1, ctx, allow, sp.parts)

\* execute(command) does not return: the line names a command whose handler
\* does not
hangs(command, cmds, allow) ==
  /\ strip(command) # <<>>
  /\ shlex_split(command).error = None
  /\ shlex_split(command).parts # <<>>
  /\ shlex_split(command).parts[1] \in DOMAIN cmds
  /\ never_returns(cmds[shlex_split(command).parts[1]].handler,
                   Tail(shlex_split(command).parts), allow)

\* a call of execute as the caller sees it
Reply(command, context, value) ==
  [command_line |-> command, context |-> context, value |-> value]

\* a caller runs TerminalEngine.execute(command, context); time.time() gives t
Execute(command, context, t) ==
  /\ t >= clock
  /\ ~hangs(command, commands, allow_py)
  /\ strip(command) # <<>> => events < MaxEvents
  /\ events' = IF strip(command) # <<>> THEN events + 1 ELSE events
  /\ clock' = IF strip(command) # <<>> THEN t ELSE clock
  /\ LET r == execute(command, context, t, commands, history, py_context,
                      allow_py)
     IN /\ reply' = Reply(command, context, r.result)
        /\ history' = r.history
        /\ py_context' = r.py_context
        /\ calls' = r.calls
  /\ submitted' = IF strip(command) # <<>>
                  THEN Append(submitted,
                              [command |-> command, timestamp |-> t,
                               context |-> context_or_empty(context)])
                  ELSE submitted
  /\ UNCHANGED <<commands, allow_py, registered, logvars, confvars,
                 threadvars>>

(* ---------------------- concurrent operator sessions ---------------- *)
\* Each thread runs execute(command) for a 'py' line; the steps are the
\* statements of execute and py_command that read or write the engine's shared
\* attributes, between which the interpreter may switch threads.

\* a thread inside execute: where it is, the command line, the arguments
\* parsed from it and time.time() of its call, self._py_context as ns.update
\* found it, and the names its evaluations have stored so far
Session(at, command, args, t, ctx, stored) ==
  [pc |-> at, command |-> command, args |-> args, t |-> t, ctx |-> ctx,
   stored |-> stored]

\* py_command reached an assignment of self._py_context (line 342 or 350):
\* the code ran without an exception and did not return at line 339
stores(e) == e.ran /\ e.handed.type = "text" /\ e.handed.output # S_None

\* what a py_command that evaluated to e leaves of a thread's call
returned(e, session) ==
  Session("idle", <<>>, <<>>, 0, <<>>,
          IF stores(e) THEN session.stored \cup DOMAIN e.py_context
          ELSE session.stored)

\* execute up to the handler's call (lines 432-471): the history record is
\* appended and the line parsed; the command is 'py'
SessionAppend(th, command, t) ==
  /\ sessions[th].pc = "idle"
  /\ strip(command) # <<>>
  /\ shlex_split(command).error = None
  /\ shlex_split(command).parts # <<>>
  /\ shlex_split(command).parts[1] = S_py
  /\ S_py \in DOMAIN commands
  /\ commands[S_py].handler = "py_command"
  /\ t >= clock
  /\ events < MaxEvents
  /\ events' = events + 1
  /\ clock' = t
  /\ history' = history_append(history, [command |-> command, timestamp |-> t,
                                         context |-> <<>>])
  /\ submitted' = Append(submitted, [command |-> command, timestamp |-> t,
                                     context |-> <<>>])
  /\ sessions' = [sessions EXCEPT ![th] =
                    Session("seed", command, Tail(shlex_split(command).parts),
                            t, <<>>, @.stored)]
  /\ UNCHANGED <<commands, py_context, calls, reply, allow_py, registered,
                 logvars, confvars, pc, local, emitted, reader>>

\* py_command: ns = {...}; ns.update(self._py_context) (lines 326-329)
SessionSeed(th) ==
  /\ sessions[th].pc = "seed"
  /\ sessions' = [sessions EXCEPT ![th] =
                    Session("run", @.command, @.args, @.t, py_context,
                            @.stored)]
  /\ UNCHANGED <<termvars, logvars, clock, events, confvars, pc, local,
                 emitted, reader>>

\* an evaluation that ended with e is stored and returned by thread th
store(th, e) ==
  /\ py_context' = IF stores(e) THEN e.py_context ELSE py_context
  /\ reply' = Reply(sessions[th].command, None,
                    format_result(e.handed, sessions[th].command,
                                  sessions[th].t))
  /\ calls' = <<[handler |-> "py_command", args |-> sessions[th].args,
                 seen |-> history, ran |-> e.ran, ns |-> e.ns,
                 before |-> sessions[th].ctx]>>
  /\ sessions' = [sessions EXCEPT ![th] = returned(e, @)]

\* py_command: eval / exec in ns, self._py_context = {...} when the code ran
\* through (lines 332-357), and execute's return (lines 473-489); code that
\* loops for ever never gets here
SessionStore(th) ==
  /\ sessions[th].pc = "run"
  /\ ~never_returns("py_command", sessions[th].args, allow_py)
  /\ store(th, py_command(sessions[th].args, sessions[th].ctx, allow_py))
  /\ UNCHANGED <<commands, history, allow_py, submitted, registered, logvars,
                 clock, events, confvars, pc, local, emitted, reader>>

\* a registration as its caller made it
Registration(handler, description) ==
  [handler |-> handler, description |-> description]

\* TerminalEngine.add_command(name, handler, description), also reached by
\* Con5013.add_custom_command
AddCommand(name, handler, description) ==
  /\ commands' = add_command(commands, name, handler, description)
  /\ registered' = (name :> Registration(handler, Some(description)))
                   @@ registered
  /\ UNCHANGED <<history, py_context, calls, reply, allow_py, submitted,
                 logvars, clock, events, confvars, threadvars>>

\* @terminal_engine.command(name, description) applied to func
Command(name, description, func) ==
  /\ commands' = command_decorator(commands, name, description, func)
  /\ registered' = (name :> Registration(func, Some(description)))
                   @@ registered
  /\ UNCHANGED <<history, py_context, calls, reply, allow_py, submitted,
                 logvars, clock, events, confvars, threadvars>>

\* TerminalEngine.get_history(limit): list(self.history) reversed, then
\* [:limit]
get_history(hist, limit) ==
  LET history_list == [k \in 1..Len(hist) |-> hist[Len(hist) + 1 - k]]
  IN IF limit >= 0
     THEN SubSeq(history_list, 1, Min(limit, Len(history_list)))
     ELSE SubSeq(history_list, 1, Max(Len(history_list) + limit, 0))

\* a caller (the /api/terminal/history route, limit = int of the query
\* argument) runs TerminalEngine.get_history(limit)
GetHistory(limit) ==
  /\ ret' = Ret("get_history", "ok", <<>>, limit, None,
                get_history(history, limit))
  /\ UNCHANGED <<logger_aliases, log_buffers, deques, log_sources, files,
                 next_id, appended, attached_targets, clock, events,
                 confvars, threadvars, termvars>>

(* --------------------------- initial states --------------------------- *)
NoEntry == [id |-> 0, timestamp |-> 0, source |-> <<>>, level |-> <<>>,
            message |-> <<>>]

\* the names TerminalEngine.__init__ marks as built-in
BuiltinNames ==
  {S_help, S_clear, S_status, S_routes, S_config, S_logs, S_history, S_http,
   S_httpfull, S_system, S_py}

\* self.commands when TerminalEngine.__init__ returns, custom being the name ->
\* handler table CON5013_CUSTOM_COMMANDS: the built-in commands, the table's
\* commands added over them, the built-in names marked, and the handler of
\* 'help' replaced by _help_handler
initial_commands(custom) ==
  LET added == [n \in DOMAIN builtin_commands \cup DOMAIN custom |->
                  IF n \in DOMAIN custom
                  THEN add_command(<<>>, n, custom[n], <<>>)[n]
                  ELSE builtin_commands[n]]
      marked == [n \in DOMAIN added |->
                   IF n \in BuiltinNames
                   THEN [added[n] EXCEPT !.builtin = TRUE]
                   ELSE added[n]]
  IN IF S_help \in DOMAIN marked
     THEN [marked EXCEPT ![S_help].handler = "_help_handler"]
     ELSE marked

\* TerminalEngine.__init__ with CON5013_CUSTOM_COMMANDS = custom and the
\* configuration entry CON5013_TERMINAL_ALLOW_PY = allow (None: no entry)
InitTerminal(custom, allow) ==
  /\ commands = initial_commands(custom)
  /\ history = <<>>
  /\ py_context = <<>>
  /\ calls = <<>>
  /\ reply = Reply(<<>>, None, Result(<<>>, "init", None, None))
  /\ allow_py = allow
  /\ submitted = <<>>
  /\ registered = [n \in DOMAIN custom |-> Registration(custom[n], None)]

(* ---------------------------- access gating ------------------------- *)
S_mode_none == <<"n","o","n","e">>
S_mode_false == <<"f","a","l","s","e">>
S_mode_basic == <<"b","a","s","i","c">>
S_mode_token == <<"t","o","k","e","n">>

\* values of CON5013_AUTHENTICATION: False (the default), a string, a
\* callable (returns: what calling it does), another object (text: its str())
NoMode == [kind |-> "falsy", text |-> <<>>, returns |-> "-"]
StrMode(text) == [kind |-> "str", text |-> text, returns |-> "-"]
CallableMode(returns) == [kind |-> "callable", text |-> <<>>, returns |-> returns]
ObjectMode(text) == [kind |-> "object", text |-> text, returns |-> "-"]

\* the authentication entries of the extension's configuration
Security(mode, user, password, token, callback) ==
  [CON5013_AUTHENTICATION |-> mode, CON5013_AUTH_USER |-> user,
   CON5013_AUTH_PASSWORD |-> password, CON5013_AUTH_TOKEN |-> token,
   CON5013_AUTH_CALLBACK |-> callback]

\* _get_default_config(): no authentication
default_security == Security(NoMode, None, None, None, None)

\* what the gate reads of a request: the result of _get_basic_credentials()
\* ([username, password], None: no Basic credentials), that of
\* _extract_token() and that of _is_api_request()
Request(basic, token, is_api) ==
  [basic |-> basic, token |-> token, is_api |-> is_api]

\* a response: _json_response for an API request, _html_response otherwise
Response(message, status_code, is_api) ==
  Some([message |-> message, status_code |-> status_code, json |-> is_api])

\* _unauthorized(message, is_api=..., status_code=...)
unauthorized(message, is_api, status_code) ==
  Response(message, status_code, is_api)

\* hmac.compare_digest(a, b)
compare_digest(a, b) == a = b

\* a callback whose exceptions and odd results let the request through
execute_callback_open(returns, is_api) ==
  IF returns = "false"
  THEN unauthorized("Access denied", is_api, 403)
  ELSE None

\* _execute_callback(callback, is_api=...), returns being what callback(request)
\* does: returns None, True, False, a Response or another value, raises
\* Unauthorized or raises another exception
execute_callback(returns, is_api) ==
  CASE returns = "unauthorized" -> unauthorized("Unauthorized", is_api, 401)
    [] returns = "raises" ->
         unauthorized("Authentication callback error", is_api, 500)
    [] returns \in {"none", "true"} -> None
    [] returns = "false" -> unauthorized("Access denied", is_api, 403)
    [] returns = "response" -> Response("<callback's response>", 302, FALSE)
    [] OTHER -> Response("<make_response(result)>", 200, FALSE)

\* mode 'basic'
enforce_basic(config, req) ==
  IF \/ config.CON5013_AUTH_USER \in {None, Some("")}
     \/ config.CON5013_AUTH_PASSWORD = None
  THEN unauthorized("Authentication is not properly configured", req.is_api,
                    500)
  ELSE IF \/ req.basic = None
          \/ req.basic[1].username = ""
          \/ req.basic[1].password = ""
  THEN unauthorized("Authentication required", req.is_api, 401)
  ELSE IF /\ compare_digest(req.basic[1].username,
                            config.CON5013_AUTH_USER[1])
          /\ compare_digest(req.basic[1].password,
                            config.CON5013_AUTH_PASSWORD[1])
  THEN None
  ELSE unauthorized("Invalid credentials", req.is_api, 401)

\* mode 'token'
enforce_token(config, req) ==
  IF config.CON5013_AUTH_TOKEN = None
  THEN unauthorized("Authentication is not properly configured", req.is_api,
                    500)
  ELSE IF req.token \in {None, Some("")}
  THEN unauthorized("Missing token", req.is_api, 401)
  ELSE IF compare_digest(req.token[1], config.CON5013_AUTH_TOKEN[1])
  THEN None
  ELSE unauthorized("Invalid token", req.is_api, 401)

\* enforce_con5013_security() for a request to an application on which the
\* extension is registered: None lets the request through
enforce_con5013_security(config, req) ==
  LET mode == config.CON5013_AUTHENTICATION
  IN IF mode.kind = "falsy" \/ (mode.kind = "str" /\ mode.text = <<>>)
     THEN None
     ELSE IF mode.kind = "str"
             /\ lower(mode.text) \in {S_mode_none, S_mode_false}
     THEN None
     ELSE IF mode.kind = "callable"
     THEN execute_callback(mode.returns, req.is_api)
     ELSE IF lower(mode.text) = S_mode_basic
     THEN enforce_basic(config, req)
     ELSE IF lower(mode.text) = S_mode_token
     THEN enforce_token(config, req)
     ELSE IF config.CON5013_AUTH_CALLBACK # None
     THEN execute_callback(config.CON5013_AUTH_CALLBACK[1], req.is_api)
     ELSE unauthorized("Access denied", req.is_api, 403)

Access(config, req, response, ran) ==
  [config |-> config, request |-> req, response |-> response, ran |-> ran]

\* a request for a route of the blueprint: _enforce_security runs before it,
\* and Flask calls the route's handler only when that returned None
BlueprintRequest(req) ==
  /\ access' = Access(access.config, Some(req),
                      enforce_con5013_security(access.config, req),
                      enforce_con5013_security(access.config, req) = None)
  /\ UNCHANGED <<logvars, clock, events, max_entries, capture_root, console,
                 threadvars, termvars>>

(* ------------------------------ Con5013 ----------------------------- *)
\* 'Terminal engine not available'
S_terminal_not_available ==
  <<"T","e","r","m","i","n","a","l"," ","e","n","g","i","n","e"," ",
    "n","o","t"," ","a","v","a","i","l","a","b","l","e">>

\* the entries of the configuration that decide what is constructed
Toggles(enabled, logs, terminal, api_scanner, system_monitor) ==
  [CON5013_ENABLED |-> enabled, CON5013_ENABLE_LOGS |-> logs,
   CON5013_ENABLE_TERMINAL |-> terminal,
   CON5013_ENABLE_API_SCANNER |-> api_scanner,
   CON5013_ENABLE_SYSTEM_MONITOR |-> system_monitor]

\* _get_default_config()
default_config == Toggles(TRUE, TRUE, TRUE, TRUE, TRUE)

\* the four component attributes, TRUE: holds an object, FALSE: None
Components(log_monitor, terminal_engine, api_scanner, system_monitor) ==
  [log_monitor |-> log_monitor, terminal_engine |-> terminal_engine,
   api_scanner |-> api_scanner, system_monitor |-> system_monitor]

\* a construction that ignores the feature toggles
initialize_all(config) == Components(TRUE, TRUE, TRUE, TRUE)

\* _initialize_components()
initialize_components(config) ==
  Components(config.CON5013_ENABLE_LOGS, config.CON5013_ENABLE_TERMINAL,
             config.CON5013_ENABLE_API_SCANNER,
             config.CON5013_ENABLE_SYSTEM_MONITOR)

\* Con5013(app, config=...): __init__ sets the four attributes to None and
\* init_app returns before constructing anything when CON5013_ENABLED is false
init_app(config) ==
  IF ~config.CON5013_ENABLED
  THEN Components(FALSE, FALSE, FALSE, FALSE)
  ELSE initialize_components(config)

\* APIScanner.discover_endpoints(): the rules of the host's routes
discover_endpoints == <<S_route_ok, S_route_boom>>

\* Con5013.get_logs(source, limit, level)
Con5013GetLogs(source, limit, level) ==
  IF console.log_monitor
  THEN GetLogs(source, limit, level)
  ELSE /\ ret' = Ret("get_logs", "ok", source, limit, level, <<>>)
       /\ UNCHANGED <<sinkvars, logger_aliases, log_sources, files, events,
                      attached_targets, confvars, threadvars, termvars>>

\* Con5013.execute_command(command, context)
Con5013ExecuteCommand(command, context, t) ==
  IF console.terminal_engine
  THEN Execute(command, context, t)
  ELSE /\ reply' = Reply(command, context,
                         [error |-> S_terminal_not_available])
       /\ UNCHANGED <<commands, history, py_context, calls, allow_py,
                      submitted, registered, logvars, clock, events, confvars,
                      threadvars>>

\* Con5013.scan_apis(); ret.logs is the list returned
Con5013ScanApis ==
  /\ ret' = Ret("scan_apis", "ok", <<>>, 0, None,
                IF console.api_scanner THEN discover_endpoints ELSE <<>>)
  /\ UNCHANGED <<sinkvars, logger_aliases, log_sources, files, events,
                 attached_targets, confvars, threadvars, termvars>>

\* Con5013.add_custom_command(name, handler, description)
Con5013AddCustomCommand(name, handler, description) ==
  /\ commands' = IF console.terminal_engine
                 THEN add_command(commands, name, handler, description)
                 ELSE commands
  /\ registered' = IF console.terminal_engine
                   THEN (name :> Registration(handler, Some(description)))
                        @@ registered
                   ELSE registered
  /\ ret' = Ret("add_custom_command", "ok", name, 0, None, <<>>)
  /\ UNCHANGED <<sinkvars, logger_aliases, log_sources, files, events,
                 attached_targets, confvars, threadvars, history, py_context,
                 calls, reply, allow_py, submitted>>

\* Con5013.add_log_source(source_name, source_path)
Con5013AddLogSource(source_name, source_path) ==
  IF console.log_monitor
  THEN AddSource(source_name, source_path)
  ELSE /\ ret' = Ret("add_log_source", "ok", source_name, 0, None, <<>>)
       /\ UNCHANGED <<sinkvars, logger_aliases, log_sources, files, events,
                      attached_targets, confvars, threadvars, termvars>>

\* LogMonitor.__init__ with CON5013_LOG_SOURCES = ['app.log'] (the default):
\* add_source('app', 'app.log') on a file that does not exist yet
InitApp(n, root, config, security) ==
  /\ console = [config |-> config] @@ init_app(config)
  /\ access = Access(security, None, None, FALSE)
  /\ max_entries = n
  /\ capture_root = root
  /\ logger_aliases = default_aliases
  /\ log_sources = (S_app :> [path |-> "app.log", last_position |-> 0,
                              last_modified |-> 0])
  /\ log_buffers = (S_app :> 1)
  /\ deques = << <<>> >>
  /\ appended = << <<>> >>
  /\ files = <<>>
  /\ clock = 1
  /\ next_id = 0
  /\ events = 0
  /\ ret = Ret("init", "ok", <<>>, 0, None, <<>>)
  /\ attached_targets = IF capture_root THEN {<<"root">>} ELSE {<<"app">>}
  /\ pc = [t \in Threads |-> "idle"]
  /\ local = [t \in Threads |-> [ref |-> 0, entry |-> NoEntry]]
  /\ emitted = [t \in Threads |-> 0]
  /\ sessions = [t \in Threads |-> Session("idle", <<>>, <<>>, 0, <<>>, {})]
  /\ reader = Reader("idle", 0, <<>>)

\* Con5013(app, config=...) without authentication settings
InitConsole(n, root, config) == InitApp(n, root, config, default_security)

\* LogMonitor(app, config) inside a console built with the default toggles
InitLog(n, root) == InitConsole(n, root, default_config)

\* the console's components as constructed with the default terminal
\* configuration: no custom command, CON5013_TERMINAL_ALLOW_PY absent
InitMonitor(n, root) == InitLog(n, root) /\ InitTerminal(<<>>, None)

Init == InitMonitor(MaxEntries, TRUE)

(* ----------------------- ingestion: Spec ------------------------------ *)
C_error == <<"e","r","r","o","r"," ","x","\n">>
C_blank == <<" ","\n">>
R_foo_baz == Record(Some(S_foo_baz), S_INFO, S_x, TRUE)
Times == clock..MaxTime

Next ==
  \/ \E l \in {S_trace, S_Info}, t \in Times : AddLogEntry(S_app, l, S_x, t)
  \/ \E t \in Times : Emit(R_foo_baz, t)
  \/ \E c \in {C_error, C_blank}, t \in Times : FileWrite("app.log", c, t)
  \/ GetLogs(S_app, 1, None)
  \/ ClearLogs(S_app)

Spec == Init /\ [][Next]_vars

(* ------------------------- queries: SpecQuery ------------------------- *)
Limits == {0, 1, MaxEntries}
LevelFilters == {None, Some(S_error)}
QuerySources == {S_app, S_bar}

NextQuery ==
  \/ \E l \in {S_error, S_trace}, t \in Times : AddLogEntry(S_app, l, S_x, t)
  \/ \E t \in Times : FileWrite("app.log", C_error, t)
  \/ \E s \in QuerySources, lim \in Limits, f \in LevelFilters :
       GetLogs(s, lim, f)

SpecQuery == Init /\ [][NextQuery]_vars

(* ---------------------- an appended file: SpecTail -------------------- *)
\* the file of 'app' is only appended to, in whole lines, and 'app' is
\* queried; 'bar' is a name nothing was declared, emitted or written under
NextTail ==
  \/ \E c \in {C_error, C_blank}, t \in Times : FileWrite("app.log", c, t)
  \/ GetLogs(S_app, MaxEntries, None)
  \/ GetLogs(S_bar, MaxEntries, None)
  \/ ClearLogs(S_bar)

SpecTail == Init /\ [][NextTail]_vars

(* ----------------- a rotated, unreadable file: SpecRotate ------------- *)
\* the paths of CON5013_LOG_SOURCES = ['app.log', 'system.log']: every string
\* source is added under the name 'app'
SourcePaths == {"app.log", "system.log"}

NextRotate ==
  \/ \E t \in Times : FileWrite("app.log", C_error, t)
  \/ \E t \in Times : FileTruncate("app.log", t)
  \/ FileRemove("app.log")
  \/ \E b \in BOOLEAN : FileChmod("app.log", b)
  \/ GetLogs(S_app, MaxEntries, None)
  \/ \E p \in SourcePaths : AddSource(S_app, p)

SpecRotate == Init /\ [][NextRotate]_vars

(* ------------------------ the terminal: SpecTerm --------------------- *)
\* command lines: empty, whitespace only, an unterminated quote, the built-in
\* 'history', and 'boom x', which is unknown until an application registers
\* a handler for 'boom' (one that raises)
CommandLines ==
  {<<>>, <<" ", "\t">>, <<"'">>, S_history, S_boom \o <<" ">> \o S_x}

\* the submitter context: absent, or a dict with one key
Contexts == {None, Some(<< <<"u">> >>)}

NextTerm ==
  \/ \E c \in CommandLines, x \in Contexts, t \in Times : Execute(c, x, t)
  \/ AddCommand(S_boom, "boom", <<>>)

SpecTerm == Init /\ [][NextTerm]_vars

(* ----------------------- dispatch: SpecDispatch ---------------------- *)
\* CON5013_CUSTOM_COMMANDS of an application that registers four handlers:
\* one returns a str, one raises, one returns an int, one returns a dict
\* without 'output' and 'type'
CustomCommands ==
  (S_echo :> "echo") @@ (S_boom :> "boom") @@ (S_count :> "count")
  @@ (S_bare :> "bare")

L_history_open_quote == S_history \o <<" ", "'">>
L_echo_double == S_echo \o <<" ", "\"", "a", " ", "b", "\"">>
L_echo_single == S_echo \o <<" ", "'", "a", " ", "b", "'", " ", "x">>
L_boom == S_boom \o <<" ">> \o S_x
L_count == S_count \o <<" ">> \o S_x

\* command lines: blank, an open quote after a registered name, quoted
\* arguments, and one line for each custom handler
DispatchLines ==
  {<<>>, L_history_open_quote, L_echo_double, L_echo_single, L_boom, L_count,
   S_bare}

InitDispatch == InitLog(MaxEntries, TRUE) /\ InitTerminal(CustomCommands, None)

NextDispatch == \E c \in DispatchLines, t \in Times : Execute(c, None, t)

SpecDispatch == InitDispatch /\ [][NextDispatch]_vars

(* ------------------------ history: SpecHistory ------------------------ *)
\* command lines: blank, the built-in 'history', and 'x', which no command
\* is registered under
HistoryLines == {<<>>, S_history, S_x}

\* the limit of /api/terminal/history?limit=...: int() of the query argument,
\* any integer
HistoryLimits == {-1, 0, 1, MaxHistory}

NextHistory ==
  \/ \E c \in HistoryLines, t \in Times : Execute(c, None, t)
  \/ \E limit \in HistoryLimits : GetHistory(limit)

SpecHistory == Init /\ [][NextHistory]_vars

(* ---------------------- registration: SpecRegistry -------------------- *)
\* CON5013_CUSTOM_COMMANDS: empty (the default), a table that names a command
\* of its own, and a table that replaces the built-in 'help'
CustomTables == {<<>>, (S_boom :> "boom"), (S_help :> "my_help")}

RegisteredNames == {S_help, S_boom}

InitRegistry ==
  /\ InitLog(MaxEntries, TRUE)
  /\ \E custom \in CustomTables : InitTerminal(custom, None)

NextRegistry ==
  \/ \E n \in RegisteredNames, h \in {"echo", "boom"} : AddCommand(n, h, S_x)
  \/ \E n \in RegisteredNames : Command(n, S_bar, "count")
  \/ \E c \in {S_help, L_boom}, t \in Times : Execute(c, None, t)

SpecRegistry == InitRegistry /\ [][NextRegistry]_vars

(* ------------------------- the evaluator: SpecPy ---------------------- *)
\* py x=2; y=5; result=x*y
L_py_program == <<"p","y"," ","x","=","2",";"," ","y","=","5",";"," ","r","e","s","u","l","t","=","x","*","y">>
\* py x
L_py_x == <<"p","y"," ","x">>
\* py (x:=None)
L_py_walrus == <<"p","y"," ","(","x",":","=","N","o","n","e",")">>
\* py x=7; q
L_py_name_error == <<"p","y"," ","x","=","7",";"," ","q">>
\* py x*
L_py_syntax_error == <<"p","y"," ","x","*">>

PyLines ==
  {L_py_program, L_py_x, L_py_walrus, L_py_name_error, L_py_syntax_error, S_py}

\* CON5013_TERMINAL_ALLOW_PY: absent (the default), False, True
AllowPy == {None, Some(FALSE), Some(TRUE)}

InitPy ==
  /\ InitLog(MaxEntries, TRUE)
  /\ \E allow \in AllowPy : InitTerminal(<<>>, allow)

NextPy == \E c \in PyLines, t \in Times : Execute(c, None, t)

SpecPy == InitPy /\ [][NextPy]_vars

(* ------------------- concurrent sessions: SpecSessions ---------------- *)
\* py x=7
L_py_x7 == <<"p","y"," ","x","=","7">>
\* py y=5
L_py_y5 == <<"p","y"," ","y","=","5">>

InitSessions == InitLog(MaxEntries, TRUE) /\ InitTerminal(<<>>, Some(TRUE))

NextSessions ==
  \E th \in Threads :
    \/ \E c \in {L_py_x7, L_py_y5}, t \in Times : SessionAppend(th, c, t)
    \/ SessionSeed(th)
    \/ SessionStore(th)

SpecSessions == InitSessions /\ [][NextSessions]_vars

(* ---------------------- a script that loops: SpecHang ---------------- *)
\* py while True: pass
L_py_loop == S_py \o <<" ">> \o S_while_true_pass

NextHang ==
  \E th \in Threads :
    \/ \E c \in {S_py, L_py_x, L_py_loop}, t \in Times :
         SessionAppend(th, c, t)
    \/ SessionSeed(th)
    \/ SessionStore(th)

\* every thread that can take a step of its call takes it
SpecHang ==
  /\ InitSessions
  /\ [][NextHang]_vars
  /\ \A th \in Threads : WF_vars(SessionSeed(th) \/ SessionStore(th))

(* ---------------------- the request invoker: SpecHttp ----------------- *)
\* http -f get /ok
L_http_full == <<"h","t","t","p"," ","-","f"," ","g","e","t"," ","/","o","k">>
\* http TRACE /ok
L_http_trace == <<"h","t","t","p"," ","T","R","A","C","E"," ","/","o","k">>
\* http POST /ok x
L_http_bad_json == <<"h","t","t","p"," ","P","O","S","T"," ","/","o","k"," ","x">>
\* http POST /ok 1
L_http_post == <<"h","t","t","p"," ","P","O","S","T"," ","/","o","k"," ","1">>
\* http GET /boom
L_http_boom == <<"h","t","t","p"," ","G","E","T"," ","/","b","o","o","m">>
\* httpfull GET /boom
L_httpfull_boom == <<"h","t","t","p","f","u","l","l"," ","G","E","T"," ","/","b","o","o","m">>

HttpLines ==
  {L_http_full, L_http_trace, L_http_bad_json, L_http_post, L_http_boom,
   L_httpfull_boom, S_http}

NextHttp == \E c \in HttpLines, t \in Times : Execute(c, None, t)

SpecHttp == Init /\ [][NextHttp]_vars

(* ------------------------ the evaluator: SpecEval -------------------- *)
\* py app=3
L_py_app_3 == <<"p","y"," ","a","p","p","=","3">>
\* py app
L_py_app == <<"p","y"," ","a","p","p">>
\* py __builtins__=3
L_py_builtins_3 == <<"p","y"," ","_","_","b","u","i","l","t","i","n","s","_","_","=","3">>

EvalLines == {L_py_program, L_py_y5, L_py_walrus, L_py_x}

NextEval == \E c \in EvalLines, t \in Times : Execute(c, None, t)

SpecEval == InitSessions /\ [][NextEval]_vars

(* ------------------------ seeded names: SpecSeed --------------------- *)
SeedLines == {L_py_app_3, L_py_app, L_py_builtins_3, L_py_x7}

NextSeed == \E c \in SeedLines, t \in Times : Execute(c, None, t)

SpecSeed == InitSessions /\ [][NextSeed]_vars

(* ----------------------- feature toggles: SpecFacade ----------------- *)
ToggleSets ==
  {Toggles(e, l, t, a, s) : e \in BOOLEAN, l \in BOOLEAN, t \in BOOLEAN,
                            a \in BOOLEAN, s \in BOOLEAN}

InitFacade ==
  /\ \E config \in ToggleSets : InitConsole(MaxEntries, TRUE, config)
  /\ InitTerminal(<<>>, None)

NextFacade ==
  \/ \E t \in Times : console.log_monitor /\ AddLogEntry(S_app, S_INFO, S_x, t)
  \/ Con5013GetLogs(S_app, MaxEntries, None)
  \/ \E c \in {S_history, S_x}, t \in Times : Con5013ExecuteCommand(c, None, t)
  \/ Con5013ScanApis
  \/ Con5013AddCustomCommand(S_echo, "echo", <<>>)
  \/ Con5013AddLogSource(S_jobs, "system.log")

SpecFacade == InitFacade /\ [][NextFacade]_vars

(* ----------------------- alias rules: SpecAlias ----------------------- *)
R_shop_db_pool == Record(Some(S_shop_db_pool), S_INFO, S_x, TRUE)
R_zed_sub == Record(Some(S_zed_sub), S_INFO, S_x, TRUE)
R_empty == Record(Some(S_empty), S_INFO, S_x, TRUE)
R_bad_format == Record(Some(S_foo_baz), S_INFO, S_x, FALSE)
R_bad_name == Record(None, S_INFO, S_x, TRUE)
Records == {R_foo_baz, R_shop_db_pool, R_zed_sub, R_empty, R_bad_format,
            R_bad_name}
AliasPrefixes == {S_foo_dot, S_shop_db}
AliasTargets == {S_bar, S_jobs}

NextAlias ==
  \/ \E r \in Records : Emit(r, clock)
  \/ \E p \in AliasPrefixes, a \in AliasTargets : SetLoggerAlias(p, a)
  \/ \E a \in {None, Some(S_jobs)} : AttachLogger(S_shop_db, a)

SpecAlias == InitMonitor(MaxEntries, TRUE) /\ [][NextAlias]_vars

(* ------------------------- access gating: SpecGate ------------------- *)
CallbackResults ==
  {"none", "true", "false", "unauthorized", "raises", "response", "other"}

Modes ==
  {NoMode, StrMode(<<"N","o","n","e">>), StrMode(<<"B","a","s","i","c">>),
   StrMode(S_mode_token), StrMode(<<"o","a","u","t","h">>),
   ObjectMode(<<"T","r","u","e">>)}
  \cup {CallableMode(r) : r \in CallbackResults}

SecuritySettings ==
  {Security(m, u, p, k, c) :
     m \in Modes, u \in {None, Some("u")}, p \in {None, Some("p")},
     k \in {None, Some("k")},
     c \in {None} \cup {Some(r) : r \in CallbackResults}}

Credentials(username, password) ==
  [username |-> username, password |-> password]

Requests ==
  {Request(b, k, a) :
     b \in {None, Some(Credentials("u", "p")), Some(Credentials("u", "x")),
            Some(Credentials("u", ""))},
     k \in {None, Some("k"), Some("x")},
     a \in BOOLEAN}

InitGate ==
  /\ \E security \in SecuritySettings :
       InitApp(MaxEntries, TRUE, default_config, security)
  /\ InitTerminal(<<>>, None)

NextGate == \E req \in Requests : BlueprintRequest(req)

SpecGate == InitGate /\ [][NextGate]_vars

(* ----------------------- attached loggers: SpecAttach ---------------- *)
InitAttach == \E root \in BOOLEAN : InitMonitor(MaxEntries, root)

NextAttach ==
  \/ \E n \in {S_foo, S_foo_baz, S_shop_db}, a \in {None, Some(S_jobs)} :
       AttachLogger(n, a)
  \/ \E r \in {R_foo_baz, R_shop_db_pool} : Log(r, clock)

SpecAttach == InitAttach /\ [][NextAttach]_vars

(* ---------------------- concurrent emits: SpecConc -------------------- *)
InitConc == InitMonitor(Cardinality(Threads) * EmitsPerThread, TRUE)

NextConc ==
  \E th \in Threads :
    \/ ThreadBuild(th, derive_source_from_logger(logger_aliases, S_foo_baz),
                   S_INFO, S_x)
    \/ ThreadCheck(th)
    \/ ThreadCreate(th)
    \/ ThreadLoad(th)
    \/ ThreadAppend(th)

SpecConc == InitConc /\ [][NextConc]_vars

(* ------------------ a concurrent reader: SpecSnapshot ----------------- *)
\* two threads emit records of logger 'foo.baz', the buffer of 'foo' is
\* cleared, and a third thread runs get_logs('foo')
NextSnapshot ==
  \/ \E th \in Threads :
       \/ ThreadBuild(th, derive_source_from_logger(logger_aliases, S_foo_baz),
                      S_INFO, S_x)
       \/ ThreadCheck(th)
       \/ ThreadCreate(th)
       \/ ThreadLoad(th)
       \/ ThreadAppend(th)
  \/ ClearLogs(S_foo)
  \/ ReaderLookup(S_foo)
  \/ ReaderList(MaxEntries, None)

SpecSnapshot == InitConc /\ [][NextSnapshot]_vars

(* ============================== claims ================================ *)
LastN(seq, n) == SubSeq(seq, Len(seq) - Min(Len(seq), n) + 1, Len(seq))

(* C1: every source's buffer is the last min(count, N) entries appended to it
   (by logger emits, manual entries and tailed file lines, counted since the
   buffer was created or last cleared), in insertion order; so its length
   never exceeds N and after N+k appends the k oldest are gone. *)
C1_BufferIsLastN ==
  \A source \in DOMAIN log_buffers :
    LET d == log_buffers[source]
    IN /\ Len(deques[d]) <= max_entries
       /\ Len(deques[d]) = Min(Len(appended[d]), max_entries)
       /\ deques[d] = LastN(appended[d], max_entries)

\* more than N entries went to 'app', from a file line and a manual entry,
\* and the oldest was evicted
C1_Witness ==
  LET h == appended[log_buffers[S_app]]
  IN /\ Len(h) > max_entries
     /\ \E i \in 1..Len(h) : h[i].message = S_x
     /\ \E i \in 1..Len(h) : h[i].message # S_x
     /\ Buffer(S_app)[1] # h[1]

(* C2: when T threads each emit E entries to one source whose buffer does not
   exist yet, with capacity N >= T*E, the buffer holds exactly T*E entries
   once every emit has returned, under every interleaving. *)
C2_NoLostWrites ==
  ((\A th \in Threads : pc[th] = "idle" /\ emitted[th] = EmitsPerThread)
   /\ max_entries >= Cardinality(Threads) * EmitsPerThread)
  => Len(Buffer(S_foo)) = Cardinality(Threads) * EmitsPerThread

(* C3: emit never raises into the producer: whatever the record (also one
   whose formatting or alias resolution fails) the call returns normally, and
   a failed emit leaves every buffer unchanged. *)
C3_EmitNeverRaises ==
  [][\A r \in Records :
       (ret'.op = "emit" /\ Emit(r, clock)) =>
         /\ ret'.outcome # "raised"
         /\ (~r.fmt_ok \/ r.name = None) => UNCHANGED <<log_buffers, deques>>]_vars

\* a failed emit has just returned after earlier emits filled a buffer
C3_Witness ==
  /\ ret.op = "emit"
  /\ ret.outcome = "handled"
  /\ \E s \in DOMAIN log_buffers : Buffer(s) # <<>>

(* C4: an emit on a channel name that starts with the prefix p of a rule
   p -> a, and with no other rule's prefix, appends its entry to the buffer of
   logical source a and changes no other buffer; set_alias("foo.", "bar")
   then emit("foo.baz") puts the entry in "bar". *)
C4_AliasRoutes ==
  [][\A r \in Records :
       (/\ ret'.op = "emit"
        /\ Emit(r, clock)
        /\ r.fmt_ok
        /\ r.name # None
        /\ Cardinality(matching(logger_aliases, r.name[1])) = 1)
       => LET i == CHOOSE k \in matching(logger_aliases, r.name[1]) : TRUE
              a == logger_aliases[i].alias
              e == [id |-> next_id + 1, timestamp |-> clock, source |-> a,
                    level |-> r.levelname, message |-> r.msg]
          IN /\ a \in DOMAIN log_buffers'
             /\ Buffer(a)' = LastN(Buffer(a) \o <<e>>, max_entries)
             /\ \A s \in DOMAIN log_buffers' :
                  s # a => s \in DOMAIN log_buffers /\ Buffer(s)' = Buffer(s)]_vars

\* set_alias("foo.", "bar") was made and emit("foo.baz") stored its entry in
\* "bar"
C4_Witness ==
  /\ ret.op = "emit"
  /\ \E i \in 1..Len(logger_aliases) :
       logger_aliases[i] = [prefix |-> S_foo_dot, alias |-> S_bar]
  /\ S_bar \in DOMAIN log_buffers
  /\ Buffer(S_bar) # <<>>
  /\ Buffer(S_bar)[Len(Buffer(S_bar))].id = next_id
  /\ S_foo \notin DOMAIN log_buffers

\* channel names the resolver is asked about
ChannelNames == {S_foo_baz, S_shop_db_pool, S_shop_db, S_zed_sub, S_empty,
                 S_dot_hid, S_flask_app, S_x}

\* the rule the specification's policy selects: longest prefix, and among
\* equal lengths the one added last
LongestMatch(aliases, name) ==
  CHOOSE i \in matching(aliases, name) :
    \A j \in matching(aliases, name) :
      \/ Len(aliases[j].prefix) < Len(aliases[i].prefix)
      \/ Len(aliases[j].prefix) = Len(aliases[i].prefix) /\ j <= i

(* C5: when several rules match a channel name, resolve returns the target of
   the rule with the longest prefix, whatever the registration order; among
   equal lengths the most recently added wins. *)
C5_LongestPrefixWins ==
  \A name \in ChannelNames :
    matching(logger_aliases, name) # {}
    => derive_source_from_logger(logger_aliases, name) =
         logger_aliases[LongestMatch(logger_aliases, name)].alias

(* C6: resolve is total; when no rule's prefix matches, the result is the
   channel name's first dot-delimited segment, and "app" for the empty
   name. *)
C6_Fallback ==
  \A name \in ChannelNames :
    matching(logger_aliases, name) = {}
    => LET r == derive_source_from_logger(logger_aliases, name)
       IN IF name = <<>>
          THEN r = S_app
          ELSE /\ startswith(name, r)
               /\ \A i \in 1..Len(r) : r[i] # "."
               /\ Len(r) = Len(name) \/ name[Len(r) + 1] = "."

\* emits on "zed.sub" and on the empty name, which no rule matches, were
\* stored under "zed" and under "app"
C6_Witness ==
  /\ matching(logger_aliases, S_zed_sub) = {}
  /\ matching(logger_aliases, S_empty) = {}
  /\ <<"z","e","d">> \in DOMAIN log_buffers
  /\ Buffer(<<"z","e","d">>) # <<>>
  /\ Buffer(S_app) # <<>>

\* the alias the table holds for a prefix
RulesFor(aliases, prefix) ==
  {i \in 1..Len(aliases) : aliases[i].prefix = prefix}

(* C7: rules can be overridden at any time: after set_alias(p, a) (or an
   attach with an alias) the table holds a single rule for p, with target a,
   every channel name resolved through p goes to a, the other rules are as
   before, and the entries already stored stay where they are. *)
C7_Override ==
  /\ [](\A i, j \in 1..Len(logger_aliases) :
          logger_aliases[i].prefix = logger_aliases[j].prefix => i = j)
  /\ [][\A p \in AliasPrefixes, a \in AliasTargets :
          (/\ ret'.op \in {"set_logger_alias", "attach_logger"}
           /\ SetLoggerAlias(p, a) \/ AttachLogger(p, Some(a)))
          => /\ Cardinality(RulesFor(logger_aliases', p)) = 1
             /\ \A i \in RulesFor(logger_aliases', p) :
                  logger_aliases'[i].alias = a
             /\ \A name \in ChannelNames :
                  (\E k \in matching(logger_aliases', name) :
                     /\ logger_aliases'[k].prefix = p
                     /\ \A i \in matching(logger_aliases', name) : k <= i)
                  => derive_source_from_logger(logger_aliases', name) = a
             /\ \A i \in 1..Len(logger_aliases) :
                  logger_aliases[i].prefix # p
                  => \E k \in 1..Len(logger_aliases') :
                       logger_aliases'[k] = logger_aliases[i]
             /\ UNCHANGED <<log_buffers, deques>>]_vars

\* "foo." was first aliased to "bar" and later to "jobs": an entry stored under
\* "bar" is still there and a later one went to "jobs"
C7_Witness ==
  /\ \E i \in 1..Len(logger_aliases) :
       logger_aliases[i] = [prefix |-> S_foo_dot, alias |-> S_jobs]
  /\ S_bar \in DOMAIN log_buffers
  /\ S_jobs \in DOMAIN log_buffers
  /\ Buffer(S_bar) # <<>>
  /\ Buffer(S_jobs) # <<>>
  /\ Buffer(S_bar)[1].id < Buffer(S_jobs)[1].id
  /\ Buffer(S_jobs)[1].message = S_x

Levels == {S_DEBUG, S_INFO, S_WARNING, S_ERROR, S_CRITICAL}

(* C8: every stored entry has a level in {DEBUG, INFO, WARNING, ERROR,
   CRITICAL}; an emit or manual entry with another level string is stored
   with level INFO. *)
C8_LevelsAreValid ==
  \A d \in 1..Len(deques) :
    \A i \in 1..Len(deques[d]) : deques[d][i].level \in Levels

\* an entry passes the filter: no filter, or its level equals the filter when
\* both are compared case-insensitively
Matches(e, f) == ~level_given(f) \/ upper(e.level) = upper(f[1])

\* what a query with arguments (lim, f) may return from the buffer content buf
QueryPost(result, buf, lim, f) ==
  /\ Len(result) <= lim
  /\ \A i \in 1..Len(result) : \E j \in 1..Len(buf) : result[i] = buf[j]
  /\ \A i, j \in 1..Len(result) : result[i] = result[j] => i = j
  /\ \A i \in 1..Len(result) : Matches(result[i], f)
  /\ Len(result) =
       Min(lim, Cardinality({j \in 1..Len(buf) : Matches(buf[j], f)}))

\* the stripped, non-empty lines a refresh of the source is about to read
LinesToIngest(source) ==
  LET nl == new_lines(log_sources, source)
  IN SelectSeq([k \in 1..Len(nl) |-> strip(nl[k])], LAMBDA x : x # <<>>)

\* the buffer of a source in the state a step leads to
BufferNext(source) ==
  IF source \in DOMAIN log_buffers' THEN deques'[log_buffers'[source]] ELSE <<>>

(* C9 as stated: for every source, limit >= 0 and optional level filter,
   get_entries returns at most limit entries, all of them in the source's
   buffer and, when a filter is given, of that level; it returns
   min(limit, matching) entries; and the call does not modify the buffer.
   (A filter that is the empty string counts as no filter.) *)
C9_QueryLeavesBuffer ==
  /\ [](ret.op = "get_logs"
        => QueryPost(ret.logs, Buffer(ret.source), ret.limit, ret.level))
  /\ [][ret'.op = "get_logs"
        => BufferNext(ret'.source) = Buffer(ret'.source)]_vars

(* C9 amended: the same, except that on a file-backed source the call first
   appends the non-empty lines newly read from the backing file (evicting
   beyond capacity); the result is taken from the buffer as it is after that
   refresh, and nothing else in any buffer changes. *)
C9_QueryAfterRefresh ==
  /\ [](ret.op = "get_logs"
        => QueryPost(ret.logs, Buffer(ret.source), ret.limit, ret.level))
  /\ [][ret'.op = "get_logs" =>
         /\ log_buffers' = log_buffers
         /\ Len(deques') = Len(deques)
         /\ \A d \in 1..Len(deques) :
              IF /\ ret'.source \in DOMAIN log_sources
                 /\ ret'.source \in DOMAIN log_buffers
                 /\ d = log_buffers[ret'.source]
              THEN LET added == SubSeq(appended'[d], Len(appended[d]) + 1,
                                       Len(appended'[d]))
                   IN /\ SubSeq(appended'[d], 1, Len(appended[d])) = appended[d]
                      /\ [k \in 1..Len(added) |-> added[k].message]
                           = LinesToIngest(ret'.source)
                      /\ deques'[d] = LastN(deques[d] \o added, max_entries)
              ELSE deques'[d] = deques[d]]_vars

\* a query on the file-backed source 'app', with limit 1 and filter "error",
\* read a new line from the file and returned it, out of a buffer that also
\* holds a newer entry of another level
C9_Witness ==
  /\ ret.op = "get_logs"
  /\ ret.source = S_app
  /\ ret.limit = 1
  /\ ret.level = Some(S_error)
  /\ Len(Buffer(S_app)) = 2
  /\ Len(ret.logs) = 1
  /\ ret.logs[1].message # S_x
  /\ ret.logs[1] = Buffer(S_app)[1]
  /\ Buffer(S_app)[2].level # S_ERROR

(* C10: get_entries returns entries newest-first: of two returned entries the
   one appended later comes first, and the entries kept after truncation are
   the most recently appended matching ones, also when consecutive appends
   receive the same timestamp. *)
C10_NewestFirst ==
  ret.op = "get_logs" =>
    /\ \A i, j \in 1..Len(ret.logs) :
         i < j => ret.logs[i].id > ret.logs[j].id
    /\ \A k \in 1..Len(Buffer(ret.source)) :
         (/\ Matches(Buffer(ret.source)[k], ret.level)
          /\ \A i \in 1..Len(ret.logs) : ret.logs[i] # Buffer(ret.source)[k])
         => \A i \in 1..Len(ret.logs) :
              ret.logs[i].id > Buffer(ret.source)[k].id

\* the messages of a sequence of entries
Messages(entries) == [k \in 1..Len(entries) |-> entries[k].message]

(* C11: clear(s) leaves the buffer of s empty and changes no other source's
   buffer, no alias rule, and no FileSource's byte offset or modification
   time, that of s included; so a get_entries on a file-backed s right after
   clear(s) holds only the lines the file gained since the last refresh, none
   of the lines read before the clear. *)
C11_ClearFrame ==
  /\ [][ret'.op = "clear_logs" =>
         /\ BufferNext(ret'.source) = <<>>
         /\ log_buffers' = log_buffers
         /\ Len(deques') = Len(deques)
         /\ \A d \in 1..Len(deques) :
              (ret'.source \in DOMAIN log_buffers
                 => d # log_buffers[ret'.source])
              => deques'[d] = deques[d]
         /\ logger_aliases' = logger_aliases
         /\ log_sources' = log_sources
         /\ files' = files]_vars
  /\ [][(/\ ret.op = "clear_logs"
         /\ ret'.op = "get_logs"
         /\ ret'.source = ret.source
         /\ ret'.source \in DOMAIN log_sources)
        => Messages(BufferNext(ret'.source))
             = LastN(LinesToIngest(ret'.source), max_entries)]_vars

\* 'app' was refreshed, cleared and queried again: the line read before the
\* clear is still in the file, below the byte offset, and not in the buffer
C11_Witness ==
  /\ ret.op = "get_logs"
  /\ ret.source = S_app
  /\ "app.log" \in DOMAIN files
  /\ files["app.log"].content = C_error
  /\ log_sources[S_app].last_position = Len(C_error)
  /\ Buffer(S_app) = <<>>

(* C12: get_entries on a source name that was never declared, emitted to or
   written to returns an empty result, clear on such a name does nothing, and
   neither raises: no buffer, file source, alias rule or file changes. *)
C12_UnknownSource ==
  [][(/\ ret'.op \in {"get_logs", "clear_logs"}
      /\ ret'.source \notin DOMAIN log_sources
      /\ ret'.source \notin DOMAIN log_buffers)
     => /\ ret'.outcome = "ok"
        /\ ret'.logs = <<>>
        /\ UNCHANGED <<log_buffers, deques, log_sources, logger_aliases,
                       files>>]_vars

\* 'bar' was queried while it had neither a buffer nor a file source and the
\* buffer of 'app' held entries
C12_Witness ==
  /\ ret.op = "get_logs"
  /\ ret.source = S_bar
  /\ S_bar \notin DOMAIN log_buffers
  /\ S_bar \notin DOMAIN log_sources
  /\ Buffer(S_app) # <<>>
  /\ ret.logs = <<>>

\* the file of a declared source exists and its modification time is not
\* newer than the one the last refresh stored
Unmodified(source) ==
  /\ source \in DOMAIN log_sources
  /\ log_sources[source].path \in DOMAIN files
  /\ files[log_sources[source].path].mtime <= log_sources[source].last_modified

(* C13: a refresh of a FileSource whose file modification time has not
   changed since the last refresh is a no-op: byte offset, modification time
   and every buffer stay as they are and nothing is read from the file, even
   when the file holds bytes beyond the byte offset. *)
C13_UnchangedIsNoOp ==
  [][(ret'.op = "get_logs" /\ Unmodified(ret'.source))
     => UNCHANGED <<log_sources, log_buffers, deques, appended, next_id,
                    files>>]_vars

\* 'app' was refreshed while its file held unread bytes under the
\* modification time of the previous refresh
C13_Witness ==
  /\ ret.op = "get_logs"
  /\ ret.source = S_app
  /\ Unmodified(S_app)
  /\ log_sources[S_app].last_position > 0
  /\ Len(files["app.log"].content) > log_sources[S_app].last_position

\* the stripped, non-empty lines of a text
NonEmptyLines(text) ==
  LET ls == readlines(text)
  IN SelectSeq([k \in 1..Len(ls) |-> strip(ls[k])], LAMBDA x : x # <<>>)

(* C14: for a file-backed source whose file is only appended to, when a
   get_entries returns every non-empty line written to the file so far has
   been ingested into the source's buffer exactly once, in file order, and no
   empty line has been ingested. *)
C14_EveryLineOnce ==
  (/\ ret.op = "get_logs"
   /\ ret.source \in DOMAIN log_sources
   /\ log_sources[ret.source].path \in DOMAIN files)
  => Messages(appended[log_buffers[ret.source]])
       = NonEmptyLines(files[log_sources[ret.source].path].content)

\* the file of a declared source exists and is at least as long as the
\* source's byte offset: it was neither removed nor truncated below it
Intact(source) ==
  /\ log_sources[source].path \in DOMAIN files
  /\ Len(files[log_sources[source].path].content)
       >= log_sources[source].last_position

(* C15: the byte offset of a FileSource never decreases over the public
   operations (emit, get_entries, clear, set_alias, attach, adding a source,
   also under a name that exists already and with the path it has), except
   when its backing file was removed or truncated below the offset. *)
C15_OffsetMonotonic ==
  [][\A s \in DOMAIN log_sources :
       (/\ s \in DOMAIN log_sources'
        /\ log_sources'[s].path = log_sources[s].path
        /\ Intact(s))
       => log_sources'[s].last_position >= log_sources[s].last_position]_vars

\* the file of a declared source exists, can be read, has a newer modification
\* time and is shorter than the source's byte offset
Shrunk(source) ==
  /\ source \in DOMAIN log_sources
  /\ log_sources[source].path \in DOMAIN files
  /\ files[log_sources[source].path].readable
  /\ files[log_sources[source].path].mtime > log_sources[source].last_modified
  /\ Len(files[log_sources[source].path].content)
       < log_sources[source].last_position

(* C16: when the backing file of a FileSource has shrunk below the stored
   byte offset, the next refresh resets the offset to 0 and reads the file
   again from the start: afterwards the offset is the end of the file and the
   non-empty lines of the file have been ingested. *)
C16_ResetOnTruncation ==
  [][(ret'.op = "get_logs" /\ Shrunk(ret'.source))
     => LET d == log_buffers[ret'.source]
            f == files[log_sources[ret'.source].path]
        IN /\ log_sources'[ret'.source].last_position = Len(f.content)
           /\ Messages(SubSeq(appended'[d], Len(appended[d]) + 1,
                              Len(appended'[d])))
                = NonEmptyLines(f.content)]_vars

\* the tail of a declared source fails: its file is missing, cannot be read,
\* or is shorter than the byte offset
TailFails(source) ==
  /\ source \in DOMAIN log_sources
  /\ \/ log_sources[source].path \notin DOMAIN files
     \/ read_fails(files, log_sources, source)
     \/ Shrunk(source)

(* C17: a file-tailing failure (missing file, permission denied or read
   error, truncation) during get_entries is not raised to the caller:
   get_entries returns the entries buffered for the source, whose buffer is
   as it was before the call. *)
C17_TailFailureIsSilent ==
  [][(ret'.op = "get_logs" /\ TailFails(ret'.source))
     => /\ ret'.outcome = "ok"
        /\ BufferNext(ret'.source) = Buffer(ret'.source)
        /\ ret'.logs = get_logs(Buffer(ret'.source), ret'.limit,
                                ret'.level)]_vars

\* 'app' was queried while its file had new content and could not be read:
\* the query returned the entry buffered earlier, and the error was logged
\* through the application's logger
C17_Witness ==
  /\ ret.op = "get_logs"
  /\ ret.source = S_app
  /\ ret.outcome = "ok"
  /\ read_fails(files, log_sources, S_app)
  /\ ret.logs # <<>>
  /\ ret.logs = Buffer(S_app)
  /\ \E i \in 1..Len(Buffer(S_flask)) :
       Buffer(S_flask)[i].message = S_read_error

\* a command line that is empty or holds whitespace only
Blank(line) == \A i \in 1..Len(line) : line[i] \in Whitespace

\* a step in which execute ran: it returned something else than the call
\* before it, or it wrote the history
Executed == reply' # reply \/ history' # history

(* C18: execute of a blank command line (empty or whitespace only) returns a
   Result of kind empty, invokes no handler, and leaves the history, the
   command registry and the execution context unchanged. *)
C18_BlankIsEmpty ==
  [][(Executed /\ Blank(reply'.command_line))
     => /\ reply'.value.type = "empty"
        /\ reply'.value.output = <<>>
        /\ calls' = <<>>
        /\ UNCHANGED <<history, commands, py_context>>]_vars

\* a whitespace-only line was executed after a command had been recorded
C18_Witness ==
  /\ reply.command_line = <<" ", "\t">>
  /\ reply.value.type = "empty"
  /\ history # <<>>

(* C19: every execute of a non-blank command line appends exactly one record
   {command line, timestamp, submitter context} to the history (evicting the
   oldest beyond capacity), whatever the outcome, and a handler that runs
   finds the record already in the history. *)
C19_RecordedFirst ==
  [][(Executed /\ ~Blank(reply'.command_line))
     => /\ history' =
             LastN(Append(history,
                          [command |-> reply'.command_line,
                           timestamp |-> clock',
                           context |-> context_or_empty(reply'.context)]),
                   MaxHistory)
        /\ \A k \in 1..Len(calls') : calls'[k].seen = history']_vars

\* 'history' ran after a line that failed to parse: both lines are recorded,
\* and the handler listed its own line
C19_Witness ==
  /\ reply.command_line = S_history
  /\ Len(history) = 2
  /\ history[1].command = <<"'">>
  /\ history[2].command = S_history
  /\ Len(calls) = 1
  /\ calls[1].handler = "history_command"
  /\ calls[1].seen = history
  /\ contains(reply.value.output, <<">", " ">> \o S_history)

\* the first token of a command line, None when the line has none
FirstToken(line) ==
  LET sp == shlex_split(line)
  IN IF sp.error = None /\ sp.parts # <<>> THEN Some(sp.parts[1]) ELSE None

(* C20: execute of a command line whose first token is not a registered
   command name returns a Result of kind error that names the token, invokes
   no handler, leaves the registry and the execution context unchanged, and
   appends the line to the history. *)
C20_UnknownCommand ==
  [][(/\ Executed
      /\ FirstToken(reply'.command_line) # None
      /\ FirstToken(reply'.command_line)[1] \notin DOMAIN commands)
     => /\ reply'.value.type = "error"
        /\ contains(reply'.value.output, FirstToken(reply'.command_line)[1])
        /\ calls' = <<>>
        /\ UNCHANGED <<commands, py_context>>
        /\ history' # <<>>
        /\ history'[Len(history')].command = reply'.command_line]_vars

\* 'boom x' was executed while no handler was registered for 'boom'
C20_Witness ==
  /\ reply.command_line = S_boom \o <<" ">> \o S_x
  /\ S_boom \notin DOMAIN commands
  /\ reply.value.type = "error"
  /\ history[Len(history)].command = reply.command_line

QuoteChars == {"'", "\""}

\* a line with one quote character and no backslash: the quote is never closed
OpenQuote(line) ==
  /\ Cardinality({i \in 1..Len(line) : line[i] \in QuoteChars}) = 1
  /\ \A i \in 1..Len(line) : line[i] # "\\"

(* C21: execute of a command line that cannot be tokenized (an unterminated
   quote) returns a Result of kind error that cites the parse problem and
   invokes no handler, also when the text before the quote names a
   registered command. *)
C21_ParseError ==
  [][(Executed /\ OpenQuote(reply'.command_line))
     => /\ reply'.value.type = "error"
        /\ contains(reply'.value.output, S_parse_error_head)
        /\ contains(reply'.value.output, S_no_closing_quotation)
        /\ calls' = <<>>
        /\ UNCHANGED <<commands, py_context>>]_vars

\* "history '" was executed while 'history' was registered
C21_Witness ==
  /\ reply.command_line = L_history_open_quote
  /\ S_history \in DOMAIN commands
  /\ reply.value.type = "error"
  /\ calls = <<>>

\* a line without backslash whose quotes are of one kind and closed
SimplyQuoted(line) ==
  /\ \A i \in 1..Len(line) : line[i] # "\\"
  /\ \A i, j \in 1..Len(line) :
       (line[i] \in QuoteChars /\ line[j] \in QuoteChars) => line[i] = line[j]
  /\ Cardinality({i \in 1..Len(line) : line[i] \in QuoteChars}) % 2 = 0

\* position i of the line is whitespace outside quotes
Separates(line, i) ==
  /\ line[i] \in Whitespace
  /\ Cardinality({j \in 1..(i - 1) : line[j] \in QuoteChars}) % 2 = 0

\* the positions where a token of the line starts
TokenStarts(line) ==
  {i \in 1..Len(line) :
     ~Separates(line, i) /\ (i = 1 \/ Separates(line, i - 1))}

\* the token that starts at position i: the text up to the next separator,
\* without the quote characters
TokenAt(line, i) ==
  LET e == CHOOSE j \in i..Len(line) :
             /\ \A k \in i..j : ~Separates(line, k)
             /\ (j = Len(line) \/ Separates(line, j + 1))
  IN SelectSeq(SubSeq(line, i, e), LAMBDA c : c \notin QuoteChars)

\* the tokens of a simply quoted line, in order
Tokens(line) ==
  [k \in 1..Cardinality(TokenStarts(line)) |->
     TokenAt(line, CHOOSE i \in TokenStarts(line) :
                     Cardinality({j \in TokenStarts(line) : j < i}) = k - 1)]

(* C22: the handler receives exactly the tokens after the command name, the
   line being split on whitespace with single- and double-quoted text kept as
   one token and the quotes removed: execute('echo "a b"') calls the echo
   handler with the one-element list [a b]. *)
C22_HandlerArguments ==
  [][(Executed /\ calls' # <<>> /\ SimplyQuoted(reply'.command_line))
     => /\ Len(calls') = 1
        /\ calls'[1].handler = commands[Tokens(reply'.command_line)[1]].handler
        /\ calls'[1].args = Tail(Tokens(reply'.command_line))]_vars

\* echo "a b" called the echo handler with the one argument a b
C22_Witness ==
  /\ reply.command_line = L_echo_double
  /\ Len(calls) = 1
  /\ calls[1].handler = "echo"
  /\ calls[1].args = << <<"a", " ", "b">> >>
  /\ reply.value.output = <<"a", " ", "b">>

(* C23: a handler that raises does not crash execute: the call returns a
   Result of kind error whose output contains the raised message and which
   carries the command line and a timestamp; the registry and the execution
   context are as before, so later executes are served. *)
C23_HandlerFailure ==
  [][(Executed /\ calls' # <<>> /\ calls'[1].handler = "boom")
     => /\ reply'.value.type = "error"
        /\ contains(reply'.value.output, S_boom)
        /\ reply'.value.command = Some(reply'.command_line)
        /\ reply'.value.timestamp = Some(clock')
        /\ UNCHANGED <<commands, py_context>>]_vars

\* 'boom x' ran the raising handler after an earlier line had been served
C23_Witness ==
  /\ reply.command_line = L_boom
  /\ Len(calls) = 1
  /\ calls[1].handler = "boom"
  /\ reply.value.type = "error"
  /\ Len(submitted) > 1

\* the kinds a Result may have
Kinds == {"text", "error", "warning", "clear", "empty"}

(* C24: every execute returns a well-formed Result on every path: a kind in
   {text, error, warning, clear, empty}, the command line and a timestamp. *)
C24_WellFormedResult ==
  reply.value.type # "init"
  => /\ reply.value.type \in Kinds
     /\ reply.value.command = Some(reply.command_line)
     /\ reply.value.timestamp # None

\* the sequence back to front
Reversed(seq) == [k \in 1..Len(seq) |-> seq[Len(seq) + 1 - k]]

\* a call of get_history has just returned
Queried == ret'.op = "get_history" /\ ret' # ret

\* C25: the history never holds more than MaxHistory records and always holds
\* the last min(count, MaxHistory) non-blank command lines submitted, in the
\* order they were submitted; a history query with limit MaxHistory returns
\* them newest first, so after MaxHistory + 1 invocations the oldest is gone
C25_HistoryRing ==
  /\ [](/\ Len(history) <= MaxHistory
        /\ history = LastN(submitted, MaxHistory))
  /\ [][Queried /\ ret'.limit = MaxHistory
          => ret'.logs = Reversed(LastN(submitted, MaxHistory))]_vars

C25_Witness ==
  /\ Len(submitted) = MaxHistory + 1
  /\ ret.op = "get_history"
  /\ ret.limit = MaxHistory
  /\ Len(ret.logs) = MaxHistory
  /\ ret.logs = Reversed(history)
  /\ ret.logs[1] = submitted[Len(submitted)]
  /\ submitted[1] # submitted[2]

\* C26: get_history(limit) returns, for any integer limit, at most
\* max(limit, 0) records; for limit >= 0 they are the min(limit, stored) most
\* recent ones, newest first; the history is left as it was
C26_HistoryLimit ==
  [][Queried
       => /\ Len(ret'.logs) <= Max(ret'.limit, 0)
          /\ ret'.limit >= 0
               => ret'.logs = Reversed(LastN(history, ret'.limit))
          /\ history' = history]_vars

\* a registration under name n has just been made
Registering(n) ==
  /\ n \in DOMAIN registered'
  /\ commands' # commands \/ registered' # registered
  /\ n \in DOMAIN registered => registered'[n] # registered[n]

\* C27: whatever way a name was registered (add_command, the decorator, the
\* configuration's table), built-in name or not, the registry maps the name to
\* the handler registered last, get_available_commands to its description, and
\* an execute of the name calls that handler; a registration leaves the other
\* names' entries as they were, and made again it changes nothing
C27_RegistrationOverwrites ==
  /\ [](\A n \in DOMAIN registered :
          /\ n \in DOMAIN commands
          /\ commands[n].handler = registered[n].handler
          /\ registered[n].description # None
               => get_available_commands(commands)[n] = registered[n].description)
  /\ [][Executed /\ reply'.value.type # "empty"
          /\ Tokens(reply'.command_line)[1] \in DOMAIN registered
          => /\ Len(calls') = 1
             /\ calls'[1].handler
                  = registered[Tokens(reply'.command_line)[1]].handler]_vars
  /\ [][\A n \in RegisteredNames :
          Registering(n)
          => /\ DOMAIN commands' = DOMAIN commands \cup {n}
             /\ \A m \in DOMAIN commands \ {n} : commands'[m] = commands[m]
             /\ add_command(commands', n, registered'[n].handler,
                            registered'[n].description[1]) = commands']_vars

\* an execute of a line whose command is 'py' has just returned
PyCalled ==
  /\ Executed
  /\ reply'.value.type # "empty"
  /\ ~OpenQuote(reply'.command_line)
  /\ Tokens(reply'.command_line)[1] = S_py

\* the evaluator is switched on: the configuration has the entry, and it is
\* True
Enabled == allow_py = Some(TRUE)

\* C28: without the configuration entry the evaluator is off, and while it is
\* off every py call returns a warning, runs none of the code and leaves the
\* execution context as it was
C28_DisabledEvaluator ==
  [][PyCalled /\ ~Enabled
       => /\ reply'.value.type = "warning"
          /\ Len(calls') = 1
          /\ ~calls'[1].ran
          /\ py_context' = py_context]_vars

C28_Witness ==
  /\ allow_py = None
  /\ reply.command_line = L_py_program
  /\ reply.value.type = "warning"
  /\ Len(submitted) > 1
  /\ py_context = <<>>

\* the names an evaluation bound or found bound, the seeded ones left out
UserNames(ns) == DOMAIN ns \ SeededNames

\* C29: after any successful evaluation the namespace it ended with is the
\* execution context, so every variable it defined is visible to the next one:
\* 'x=2; y=5; result=x*y' gives an output ending in 10, and 'x' then gives 2
C29_PersistedNamespace ==
  [][PyCalled /\ Enabled
       => /\ (calls'[1].ran /\ reply'.value.type = "text")
               => /\ UserNames(calls'[1].ns) = DOMAIN py_context'
                  /\ \A k \in DOMAIN py_context' :
                       py_context'[k] = calls'[1].ns[k]
          /\ reply'.command_line = L_py_program
               => /\ reply'.value.type = "text"
                  /\ LastN(reply'.value.output, 2) = <<"1", "0">>
          /\ (reply'.command_line = L_py_x /\ S_x \in DOMAIN py_context
              /\ py_context[S_x].kind = "int")
               => reply'.value.output = str(py_context[S_x].n)]_vars

\* C30: a syntax error or a runtime error in the code gives an error Result
\* that carries the exception's message, with the command line and a
\* timestamp as for any handled command; an evaluation that gave an error
\* leaves the execution context as it was
C30_FailedEvaluation ==
  [][PyCalled /\ Enabled
       => /\ reply'.value.type \in {"text", "error", "warning"}
          /\ reply'.value.command = Some(reply'.command_line)
          /\ reply'.value.timestamp # None
          /\ reply'.command_line = L_py_name_error
               => /\ reply'.value.type = "error"
                  /\ reply'.value.output
                       = S_eval_error_head \o S_name_head \o <<"q">>
                         \o S_name_tail
          /\ reply'.command_line = L_py_syntax_error
               => /\ reply'.value.type = "error"
                  /\ reply'.value.output = S_eval_error_head \o S_invalid_syntax
          /\ reply'.value.type = "error" => py_context' = py_context]_vars

C30_Witness ==
  /\ Enabled
  /\ reply.command_line = L_py_name_error
  /\ reply.value.type = "error"
  /\ Len(calls) = 1
  /\ calls[1].ran
  /\ S_x \in DOMAIN calls[1].ns
  /\ S_x \notin DOMAIN py_context

\* no thread is inside execute
Quiet == \A th \in Threads : sessions[th].pc = "idle"

\* C31: once every concurrent execute has returned, each variable a successful
\* evaluation assigned is in the execution context, whatever the interleaving,
\* and every non-blank execute has left its record in the history (the last
\* MaxHistory of them being kept)
C31_NoLostUpdate ==
  /\ Quiet => \A th \in Threads : sessions[th].stored \subseteq DOMAIN py_context
  /\ Len(history) = Min(Len(submitted), MaxHistory)
  /\ Len(submitted) = events

\* the call of get_logs in progress has just returned
ReaderReturned == reader.pc = "list" /\ reader'.pc = "idle"

\* what the deque the reader was given holds
ReaderBuffer == IF reader.ref = 0 THEN <<>> ELSE deques[reader.ref]

\* C32: a get_logs that runs while other threads emit to its source and clear
\* it returns without failing, and what it returns is the query's answer on
\* the content its deque had at one instant of the call: when it was looked
\* up, or when it was copied
C32_ConsistentSnapshot ==
  [][ReaderReturned
       => /\ ret'.outcome = "ok"
          /\ \E c \in {reader.found, ReaderBuffer} :
               ret'.logs = slice_to(sort_newest_first(c), ret'.limit)]_vars

C32_Witness ==
  /\ reader.pc = "idle"
  /\ ret.op = "get_logs"
  /\ ret.outcome = "ok"
  /\ Len(ret.logs) >= 1
  /\ Len(reader.found) >= 1
  /\ ret.logs # slice_to(sort_newest_first(reader.found), ret.limit)
  /\ \E th \in Threads : pc[th] # "idle"

\* C33: every call of execute returns: a thread that entered execute leaves
\* it, whatever command it runs
C33_ExecuteReturns ==
  \A th \in Threads : (sessions[th].pc # "idle") ~> (sessions[th].pc = "idle")

\* an execute of a line whose command is http or httpfull has just returned
HttpCalled ==
  /\ Executed
  /\ reply'.value.type # "empty"
  /\ Tokens(reply'.command_line)[1] \in {S_http, S_httpfull}

\* C34: http and httpfull always hand back a Result: for a method they do not
\* support or a JSON text that does not parse it is an error and no request
\* is dispatched; when dispatching raises it is an error with the exception's
\* message
C34_InvokerContainsFailures ==
  [][HttpCalled
       => /\ reply'.value.type \in {"text", "error", "warning"}
          /\ reply'.value.command = Some(reply'.command_line)
          /\ Len(calls') = 1
          /\ reply'.command_line \in {L_http_trace, L_http_bad_json}
               => reply'.value.type = "error" /\ ~calls'[1].ran
          /\ reply'.command_line = L_http_bad_json
               => reply'.value.output = S_invalid_json \o S_expecting_value
          /\ reply'.command_line \in {L_http_boom, L_httpfull_boom}
               => /\ calls'[1].ran
                  /\ reply'.value.type = "error"
                  /\ reply'.value.output = S_http_error \o S_boom
          /\ reply'.command_line \in {L_http_full, L_http_post}
               => calls'[1].ran /\ reply'.value.type = "text"]_vars

C34_Witness ==
  /\ reply.command_line = L_httpfull_boom
  /\ reply.value.type = "error"
  /\ Len(calls) = 1
  /\ calls[1].ran
  /\ \E k \in 1..Len(submitted) : submitted[k].command = L_http_trace

\* C35: a component whose toggle is false (or every component, with
\* CON5013_ENABLED false) is not constructed; then get_logs and scan_apis
\* return an empty list, execute_command returns the 'not available' value
\* and runs nothing, and add_custom_command and add_log_source change nothing
C35_DisabledComponents ==
  [][/\ ~console.config.CON5013_ENABLE_LOGS => ~console.log_monitor
     /\ ~console.config.CON5013_ENABLE_TERMINAL => ~console.terminal_engine
     /\ ~console.config.CON5013_ENABLE_API_SCANNER => ~console.api_scanner
     /\ ~console.config.CON5013_ENABLE_SYSTEM_MONITOR
          => ~console.system_monitor
     /\ ~console.config.CON5013_ENABLED
          => console = [config |-> console.config]
                       @@ Components(FALSE, FALSE, FALSE, FALSE)
     /\ console' = console
     /\ (~console.log_monitor /\ ret' # ret /\ ret'.op = "get_logs")
          => ret'.logs = <<>> /\ UNCHANGED <<sinkvars, log_sources>>
     /\ (~console.api_scanner /\ ret' # ret /\ ret'.op = "scan_apis")
          => ret'.logs = <<>>
     /\ (~console.terminal_engine /\ reply' # reply)
          => /\ reply'.value = [error |-> S_terminal_not_available]
             /\ UNCHANGED <<history, py_context, calls, commands>>
     /\ (~console.terminal_engine /\ ret' # ret
         /\ ret'.op = "add_custom_command")
          => UNCHANGED <<commands, registered>>
     /\ (~console.log_monitor /\ ret' # ret /\ ret'.op = "add_log_source")
          => UNCHANGED <<log_sources, sinkvars, files>>]_vars

C35_Witness ==
  /\ console.config.CON5013_ENABLED
  /\ ~console.config.CON5013_ENABLE_TERMINAL
  /\ ~console.terminal_engine
  /\ console.log_monitor
  /\ Len(deques[log_buffers[S_app]]) > 0
  /\ reply.command_line = S_history
  /\ reply.value = [error |-> S_terminal_not_available]
  /\ ret.op = "add_custom_command"
  /\ S_echo \notin DOMAIN commands

\* the code of a 'py' line: what follows the command name
Code(line) == strip(SubSeq(line, Len(S_py) + 1, Len(line)))

HasSeparator(code) == find(code, "\n") > 0 \/ find(code, ";") > 0

\* an evaluation that ran the code and gave no error has just returned
Evaluated ==
  /\ PyCalled
  /\ Enabled
  /\ calls'[1].ran
  /\ reply'.value.type = "text"

\* C36: code without newline and ';' that is an expression is evaluated as one
\* (the output is its value); other code is run as statements; either way,
\* after a run without error the execution context is the namespace the run
\* ended with, the seeded names left out
C36_EvaluationMode ==
  [][Evaluated
       => /\ (reply'.command_line = L_py_x /\ S_x \in DOMAIN py_context
              /\ py_context[S_x].kind = "int")
               => reply'.value.output = str(py_context[S_x].n)
          /\ reply'.command_line = L_py_y5
               => calls'[1].ns[<<"y">>] = IntV(5)
          /\ HasSeparator(Code(reply'.command_line))
               => reply'.value.output
                    \in {S_code_executed, str_value(calls'[1].ns[S_result])}
          /\ \A k \in DOMAIN calls'[1].ns \ SeededNames :
               /\ k \in DOMAIN py_context'
               /\ py_context'[k] = calls'[1].ns[k]]_vars

\* the code of the line assigns to name, as a statement or inside an
\* expression
Defines(code, name) ==
  \E k \in 1..Len(split_semicolon(code)) :
    LET stmt == split_semicolon(code)[k]
    IN \/ is_assignment(stmt) /\ SubSeq(stmt, 1, find(stmt, "=") - 1) = name
       \/ is_walrus(stmt) /\ SubSeq(stmt, 2, find(stmt, ":") - 1) = name

\* C37: the output of an evaluation ends with the text of `result` exactly
\* when the code of this call defines `result` (nothing is printed by the
\* model's code, so the captured output is empty)
C37_ResultSurfaced ==
  [][Evaluated
       => IF Defines(Code(reply'.command_line), S_result)
          THEN reply'.value.output = str_value(calls'[1].ns[S_result])
          ELSE \/ S_result \notin DOMAIN calls'[1].ns
               \/ reply'.value.output = S_code_executed
               \/ ~HasSeparator(Code(reply'.command_line))
                  /\ is_expr(Code(reply'.command_line))]_vars

\* C38: the execution context never holds __builtins__, app or current_app;
\* whatever earlier code bound under these names, an evaluation starts with
\* the application under app and current_app and the safe builtins under
\* __builtins__
C38_SeededNames ==
  [][PyCalled /\ Enabled /\ calls'[1].ran
       => /\ DOMAIN py_context' \cap SeededNames = {}
          /\ DOMAIN calls'[1].before \cap SeededNames = {}
          /\ calls'[1].ns[S_current_app] = AppV
          /\ reply'.command_line # L_py_app_3 => calls'[1].ns[S_app] = AppV
          /\ reply'.command_line # L_py_builtins_3
               => calls'[1].ns[S_builtins] = BuiltinsV
          /\ reply'.command_line = L_py_app
               => reply'.value.output = S_flask_object]_vars

C38_Witness ==
  /\ reply.command_line = L_py_app
  /\ reply.value.output = S_flask_object
  /\ Len(submitted) = 3
  /\ submitted[1].command = L_py_app_3
  /\ submitted[2].command = L_py_builtins_3
  /\ DOMAIN py_context = {}

\* the host has just logged a record on one of its loggers
Logged == ret' # ret /\ ret'.op = "log"

\* C39: whatever loggers were attached and in whatever order, a record the
\* host logs becomes at most one entry; attaching a logger again leaves the
\* set of attached loggers as it is, and with root capture on a logger that
\* propagates is not attached, only its alias is recorded
C39_AtMostOnce ==
  [][/\ Logged => next_id' <= next_id + 1
     /\ (ret' # ret /\ ret'.op = "attach_logger")
          => /\ capture_root => attached_targets' = attached_targets
             /\ \A n \in {S_foo, S_foo_baz, S_shop_db} :
                  <<"logger", n>> \in attached_targets
                    => <<"logger", n>> \in attached_targets']_vars

\* the callback the configuration provides: the mode itself when it is
\* callable, CON5013_AUTH_CALLBACK otherwise (None: there is none)
ConfiguredCallback(config) ==
  IF config.CON5013_AUTHENTICATION.kind = "callable"
  THEN Some(config.CON5013_AUTHENTICATION.returns)
  ELSE config.CON5013_AUTH_CALLBACK

\* the cases in which a request may be let through
MayAdmit(config, req) ==
  LET mode == config.CON5013_AUTHENTICATION
  IN \/ mode.kind = "falsy"
     \/ mode.kind = "str" /\ lower(mode.text) \in {S_mode_none, S_mode_false}
     \/ /\ mode.kind = "str"
        /\ lower(mode.text) = S_mode_basic
        /\ req.basic # None
        /\ Some(req.basic[1].username) = config.CON5013_AUTH_USER
        /\ Some(req.basic[1].password) = config.CON5013_AUTH_PASSWORD
     \/ /\ mode.kind = "str"
        /\ lower(mode.text) = S_mode_token
        /\ req.token # None
        /\ req.token = config.CON5013_AUTH_TOKEN
     \/ /\ ConfiguredCallback(config) # None
        /\ ConfiguredCallback(config)[1] \in {"none", "true"}

\* C40: a request is let through (no response from the gate, the handler
\* runs) only with authentication unset, 'none' or 'false', matching basic
\* credentials, a matching token, or a callback that returns None or True;
\* otherwise the gate answers and the route's handler does not run
C40_FailClosed ==
  access.request # None
    => /\ access.ran <=> access.response = None
       /\ access.response = None
            => MayAdmit(access.config, access.request[1])
       /\ ~MayAdmit(access.config, access.request[1])
            => /\ access.response # None
               /\ ~access.ran

C40_Witness ==
  /\ access.request # None
  /\ access.config.CON5013_AUTHENTICATION = StrMode(<<"B","a","s","i","c">>)
  /\ access.config.CON5013_AUTH_CALLBACK = Some("true")
  /\ access.request[1].basic = Some(Credentials("u", "x"))
  /\ access.request[1].token = Some("k")
  /\ access.response # None
  /\ access.response[1].status_code = 401
  /\ ~access.ran

====
